---- MODULE Spec2Model ----
(***************************************************************************)
(* File resolution engine of data_loader/utils/file_finder.py: pattern     *)
(* normalisation, base directory resolution, traversal validation, glob    *)
(* matching and the exact-match-first resolver, over a POSIX filesystem    *)
(* with directories, regular files and symbolic links.                     *)
(*                                                                         *)
(* A string is a sequence of one-character strings, so that split, join,   *)
(* replace, prefix tests, wildcard matching and code point ordering are    *)
(* computed character by character as Python computes them.                *)
(***************************************************************************)
EXTENDS Integers, Sequences, FiniteSets, TLC

----------------------------------------------------------------------------
(* Bounds of the model.                                                    *)

\* modification times are drawn from 1..MaxMtime
MaxMtime == 2

----------------------------------------------------------------------------
(* Strings.                                                                *)

\* ord(ch) for the characters that occur in the model's names
Ord(ch) ==
    CASE ch = "*" -> 42 [] ch = "-" -> 45 [] ch = "." -> 46 [] ch = "/" -> 47
      [] ch = "1" -> 49 [] ch = "2" -> 50 [] ch = "?" -> 63 [] ch = "T" -> 84
      [] ch = "a" -> 97 [] ch = "b" -> 98 [] ch = "c" -> 99 [] ch = "d" -> 100
      [] ch = "e" -> 101 [] ch = "f" -> 102 [] ch = "k" -> 107 [] ch = "l" -> 108
      [] ch = "p" -> 112 [] ch = "q" -> 113 [] ch = "x" -> 120 [] ch = "z" -> 122

\* a < b for Python str (lexicographic by code point, a proper prefix first)
RECURSIVE StrLess(_, _)
StrLess(a, b) ==
    IF b = <<>> THEN FALSE
    ELSE IF a = <<>> THEN TRUE
    ELSE IF Head(a) = Head(b) THEN StrLess(Tail(a), Tail(b))
    ELSE Ord(Head(a)) < Ord(Head(b))

\* ch in s
Contains(s, ch) == \E i \in 1..Len(s) : s[i] = ch

\* s.startswith(ch) for a one-character ch
StartsWith(s, ch) == Len(s) > 0 /\ s[1] = ch

\* s.split(sep) for a one-character sep: empty pieces are kept
RECURSIVE Split(_, _)
Split(s, sep) ==
    IF ~Contains(s, sep) THEN <<s>>
    ELSE LET i == CHOOSE k \in 1..Len(s) :
                      s[k] = sep /\ \A j \in 1..(k - 1) : s[j] # sep
         IN  <<SubSeq(s, 1, i - 1)>> \o Split(SubSeq(s, i + 1, Len(s)), sep)

\* sep.join(parts)
RECURSIVE Join(_, _)
Join(parts, sep) ==
    IF parts = <<>> THEN <<>>
    ELSE IF Len(parts) = 1 THEN parts[1]
    ELSE parts[1] \o <<sep>> \o Join(Tail(parts), sep)

\* s.lstrip('/')
RECURSIVE LStripSlash(_)
LStripSlash(s) == IF StartsWith(s, "/") THEN LStripSlash(Tail(s)) ELSE s

\* os.path.commonprefix of two strings: character by character
RECURSIVE CommonPrefixStr(_, _)
CommonPrefixStr(a, b) ==
    IF a = <<>> \/ b = <<>> \/ Head(a) # Head(b) THEN <<>>
    ELSE <<Head(a)>> \o CommonPrefixStr(Tail(a), Tail(b))

\* the longest common prefix of two sequences of path segments
RECURSIVE CommonSegs(_, _)
CommonSegs(a, b) ==
    IF a = <<>> \/ b = <<>> \/ Head(a) # Head(b) THEN <<>>
    ELSE <<Head(a)>> \o CommonSegs(Tail(a), Tail(b))

\* the orderings of a finite set: every enumeration order of its elements
Perms(S) ==
    {s \in [1..Cardinality(S) -> S] : \A x \in S : \E i \in DOMAIN s : s[i] = x}

----------------------------------------------------------------------------
(* pathlib.PurePosixPath: a path is whether it is absolute and its parts.  *)

DotDot == <<".", ".">>
Dot == <<".">>

\* Path(s): empty and '.' segments are dropped, '..' is kept
PathOf(s) ==
    [abs |-> StartsWith(s, "/"),
     parts |-> SelectSeq(Split(s, "/"), LAMBDA seg : seg # <<>> /\ seg # Dot)]

\* str(p)
PStr(p) ==
    IF p.abs THEN <<"/">> \o Join(p.parts, "/")
    ELSE IF p.parts = <<>> THEN Dot ELSE Join(p.parts, "/")

\* p / q
PJoin(p, q) == IF q.abs THEN q ELSE [abs |-> p.abs, parts |-> p.parts \o q.parts]

\* p.parent
PParent(p) ==
    IF p.parts = <<>> THEN p
    ELSE [abs |-> p.abs, parts |-> SubSeq(p.parts, 1, Len(p.parts) - 1)]

AbsPath(parts) == [abs |-> TRUE, parts |-> parts]

----------------------------------------------------------------------------
(* The filesystem: a function from the physical path of each node (its     *)
(* segments from the root) to the node. A link's target is a path.         *)

nc == <<"c">>
ncdash == <<"c", "-">>
ne == <<"e">>
nTa == <<"T", "a">>
nTb == <<"T", "b">>
nd1 == <<"d", "1">>
nd2 == <<"d", "2">>
nab == <<"a", "b">>
nastar == <<"a", "*">>
nf == <<"f">>
np == <<"p">>
nq == <<"q">>
nx == <<"x">>
nle == <<"l", "e">>
nlp == <<"l", "p">>
nl == <<"l">>
nk == <<"k">>
nzz == <<"z", "z">>

Dir == [kind |-> "dir", target |-> AbsPath(<<>>), mtime |-> 1]
File(t) == [kind |-> "file", target |-> AbsPath(<<>>), mtime |-> t]
Link(parts) == [kind |-> "link", target |-> AbsPath(parts), mtime |-> 1]

\* the optional features of a layout
Extras == {"star", "nopasswd", "esclink", "loop", "rootlink"}

\* /c is the configured directory of the examples (with TestA/data_1 and
\* TestB/data_2 as Ta/d1 and Tb/d2), /c- a sibling whose name has "c" as a
\* string prefix, /e an outside directory
Layout(extras, mt) ==
    {<< <<>>, Dir >>,
     << <<nc>>, Dir >>,
     << <<nc, nTa>>, Dir >>,
     << <<nc, nTa, nd1>>, File(mt.d1) >>,
     << <<nc, nTb>>, Dir >>,
     << <<nc, nTb, nd2>>, File(mt.d2) >>,
     << <<nc, nab>>, File(1) >>,
     << <<ncdash>>, Dir >>,
     << <<ncdash, nf>>, File(1) >>,
     << <<ne>>, Dir >>,
     << <<ne, nq>>, Dir >>,
     << <<ne, nc>>, Dir >>,
     << <<ne, nc, nx>>, File(1) >>}
    \cup (IF "nopasswd" \in extras THEN {} ELSE {<< <<ne, np>>, File(1) >>})
    \cup (IF "star" \in extras THEN {<< <<nc, nastar>>, File(1) >>} ELSE {})
    \cup (IF "esclink" \in extras THEN {<< <<nc, nle>>, Link(<<ne>>) >>} ELSE {})
    \cup (IF "loop" \in extras THEN {<< <<nc, nlp>>, Link(<<nc, nlp>>) >>} ELSE {})
    \cup (IF "rootlink" \in extras THEN {<< <<nl>>, Link(<<ne, nq>>) >>} ELSE {})

MkFs(nodes) ==
    [pp \in {n[1] : n \in nodes} |-> (CHOOSE n \in nodes : n[1] = pp)[2]]

\* the process's working directory (os.getcwd(): already canonical)
Cwd == AbsPath(<<nc>>)

Front(parts) == SubSeq(parts, 1, Len(parts) - 1)

IsLinkNode(f, pp) == pp \in DOMAIN f /\ f[pp].kind = "link"
IsDirNode(f, pp) == pp \in DOMAIN f /\ f[pp].kind = "dir"

\* the parts of p from the root, a relative p taken from the working directory
FromRoot(p) == IF p.abs THEN p.parts ELSE Cwd.parts \o p.parts

\* The kernel's path resolution, as stat() does it: every component must
\* exist, a component is looked up in a directory only, links are followed
\* (the final one too), a link met while it is being followed is ELOOP.
\* at is the physical path reached so far.
RECURSIVE OsWalk(_, _, _, _)
OsWalk(f, at, rest, following) ==
    IF rest = <<>> THEN [ok |-> TRUE, at |-> at]
    ELSE IF ~IsDirNode(f, at) THEN [ok |-> FALSE, at |-> at]
    ELSE IF Head(rest) = DotDot
         THEN OsWalk(f, IF at = <<>> THEN at ELSE Front(at), Tail(rest), following)
    ELSE LET new == Append(at, Head(rest)) IN
         IF new \notin DOMAIN f THEN [ok |-> FALSE, at |-> new]
         ELSE IF f[new].kind # "link" THEN OsWalk(f, new, Tail(rest), following)
         ELSE IF new \in following THEN [ok |-> FALSE, at |-> new]
         ELSE LET r == OsWalk(f, IF f[new].target.abs THEN <<>> ELSE at,
                              f[new].target.parts, following \cup {new})
              IN  IF r.ok THEN OsWalk(f, r.at, Tail(rest), following) ELSE r

Missing == [kind |-> "missing", target |-> AbsPath(<<>>), mtime |-> 0]

\* os.stat(p), Missing when it fails
Stat(f, p) ==
    LET r == OsWalk(f, <<>>, FromRoot(p), {}) IN IF r.ok THEN f[r.at] ELSE Missing

\* Path.exists, Path.is_file, Path.is_dir: False when stat fails
Exists(f, p) == Stat(f, p).kind # "missing"
IsFile(f, p) == Stat(f, p).kind = "file"
IsDir(f, p) == Stat(f, p).kind = "dir"

\* the entry names os.scandir(p) lists
Scandir(f, p) ==
    LET r == OsWalk(f, <<>>, FromRoot(p), {}) IN
    IF ~r.ok THEN {}
    ELSE {pp[Len(pp)] : pp \in {qq \in DOMAIN f :
                 Len(qq) = Len(r.at) + 1 /\ Front(qq) = r.at}}

\* os.path.realpath(strict=False) on the parts of an absolute path
\* (posixpath._joinrealpath): '..' drops the last segment of the path
\* resolved so far, a missing component is kept as it is written, a link is
\* replaced by its resolved target. A link met while it is being resolved
\* is a symlink loop: ok is FALSE, and the link is kept as it is written.
RECURSIVE JoinRealPath(_, _, _, _)
JoinRealPath(f, path, rest, seen) ==
    IF rest = <<>> THEN [path |-> path, ok |-> TRUE]
    ELSE IF Head(rest) = DotDot
         THEN JoinRealPath(f, IF path = <<>> THEN path ELSE Front(path), Tail(rest), seen)
    ELSE LET newpath == Append(path, Head(rest)) IN
         IF ~IsLinkNode(f, newpath) THEN JoinRealPath(f, newpath, Tail(rest), seen)
         ELSE IF newpath \in seen
              THEN [path |-> JoinRealPath(f, newpath, Tail(rest), seen).path,
                    ok |-> FALSE]
         ELSE LET r == JoinRealPath(f, IF f[newpath].target.abs THEN <<>> ELSE path,
                                    f[newpath].target.parts, seen \cup {newpath})
                  t == JoinRealPath(f, r.path, Tail(rest), seen)
              IN  [path |-> t.path, ok |-> r.ok /\ t.ok]

\* the Pythons that run the program: up to 3.12, and 3.13 or later
Pythons == {"3.12", "3.13"}

\* Path.resolve() (strict=False). On a symlink loop Python up to 3.12
\* raises RuntimeError; from Python 3.13 no exception is raised and the
\* path is returned with the looping link unresolved.
Resolve(f, python, p) ==
    LET r == JoinRealPath(f, <<>>, FromRoot(p), {}) IN
    IF ~r.ok /\ python = "3.12" THEN [kind |-> "RuntimeError", path |-> AbsPath(r.path)]
    ELSE [kind |-> "ok", path |-> AbsPath(r.path)]

----------------------------------------------------------------------------
(* data_loader/utils/file_finder.py                                        *)

\* Optional[...] arguments
None == [some |-> FALSE, v |-> <<>>]
Some(x) == [some |-> TRUE, v |-> x]

\* pattern.replace('**', '*'): non-overlapping occurrences, left to right
RECURSIVE _normalize_pattern(_)
_normalize_pattern(pattern) ==
    IF pattern = <<>> THEN <<>>
    ELSE IF Len(pattern) >= 2 /\ pattern[1] = "*" /\ pattern[2] = "*"
         THEN <<"*">> \o _normalize_pattern(SubSeq(pattern, 3, Len(pattern)))
    ELSE <<Head(pattern)>> \o _normalize_pattern(Tail(pattern))

\* the resolution that joins a relative base to the working directory even
\* when the location of the config file is known
_resolve_base_directory_from_cwd(f, python, base_directory, config_file_path) ==
    IF ~base_directory.some
    THEN IF config_file_path.some
         THEN Resolve(f, python, PParent(config_file_path.v))
         ELSE Resolve(f, python, Cwd)
    ELSE Resolve(f, python, PJoin(Cwd, PathOf(base_directory.v)))

\* base_directory: an optional string; config_file_path: an optional Path.
\* The value is what .resolve() gives: a path, or RuntimeError.
_resolve_base_directory(f, python, base_directory, config_file_path) ==
    IF ~base_directory.some
    THEN IF config_file_path.some
         THEN Resolve(f, python, PParent(config_file_path.v))
         ELSE Resolve(f, python, Cwd)
    ELSE LET base_path == PathOf(base_directory.v) IN
         IF base_path.abs THEN Resolve(f, python, base_path)
         ELSE IF config_file_path.some
              THEN Resolve(f, python, PJoin(PParent(config_file_path.v), base_path))
              ELSE Resolve(f, python, PJoin(Cwd, base_path))

\* a comparison by string prefix (os.path.commonprefix) in place of the
\* comparison by segments
commonpath_by_characters(a, b) == PathOf(CommonPrefixStr(PStr(a), PStr(b)))

\* os.path.commonpath([a, b]) of two absolute paths: segment by segment
commonpath(a, b) == AbsPath(CommonSegs(a.parts, b.parts))

\* Both paths are resolved; a RuntimeError of resolve() is not among the
\* exceptions the function catches and leaves it.
validate_path_within_base(f, python, resolved_path, base_directory) ==
    LET resolved_base == Resolve(f, python, base_directory)
        resolved_target == Resolve(f, python, resolved_path)
    IN  IF resolved_base.kind # "ok" \/ resolved_target.kind # "ok"
        THEN [kind |-> "RuntimeError", val |-> FALSE]
        ELSE [kind |-> "bool",
              val |-> commonpath(resolved_base.path, resolved_target.path)
                          = resolved_base.path]

\* fnmatch of one path segment: '*' any run of characters, '?' any one
RECURSIVE FnMatch(_, _)
FnMatch(pat, name) ==
    IF pat = <<>> THEN name = <<>>
    ELSE IF Head(pat) = "*"
         THEN FnMatch(Tail(pat), name) \/ (name # <<>> /\ FnMatch(pat, Tail(name)))
    ELSE name # <<>> /\ (Head(pat) = "?" \/ Head(pat) = Head(name))
                     /\ FnMatch(Tail(pat), Tail(name))

IsWildcardPart(part) == Contains(part, "*") \/ Contains(part, "?")

Child(p, name) == [abs |-> p.abs, parts |-> Append(p.parts, name)]

\* pathlib's selectors: a wildcard part lists the directory and keeps the
\* entries that match (directories only when more parts follow), another
\* part (also '..') is appended if it exists; the matches keep the parts as
\* they were selected, unresolved.
RECURSIVE SelectFrom(_, _, _)
SelectFrom(f, parent_path, parts) ==
    IF parts = <<>> THEN {parent_path}
    ELSE LET part == Head(parts)
             dironly == Len(parts) > 1
         IN  IF IsWildcardPart(part)
             THEN UNION {SelectFrom(f, Child(parent_path, name), Tail(parts)) :
                           name \in {n \in Scandir(f, parent_path) :
                                       /\ FnMatch(part, n)
                                       /\ dironly => IsDir(f, Child(parent_path, n))}}
             ELSE IF (IF dironly THEN IsDir(f, Child(parent_path, part))
                                 ELSE Exists(f, Child(parent_path, part)))
                  THEN SelectFrom(f, Child(parent_path, part), Tail(parts))
                  ELSE {}

\* the set search_base.glob(search_pattern) yields, in no order
glob(f, search_base, search_pattern) ==
    IF ~IsDir(f, search_base) THEN {}
    ELSE SelectFrom(f, search_base, PathOf(search_pattern).parts)

\* lines 139-181: the directory that is searched and validated against,
\* and the pattern searched in it
SearchPlan(f, python, pattern, base_directory, config_file_path) ==
    LET normalized_pattern == _normalize_pattern(pattern)
        is_absolute_pattern == StartsWith(normalized_pattern, "/")
        pattern_parts == Split(normalized_pattern, "/")
        wild == {i \in DOMAIN pattern_parts : IsWildcardPart(pattern_parts[i])}
        first == IF wild = {} THEN Len(pattern_parts) + 1
                 ELSE CHOOSE i \in wild : \A j \in wild : i <= j
        base_parts == SelectSeq(SubSeq(pattern_parts, 1, first - 1),
                                LAMBDA part : part # <<>>)
        search_parts == SubSeq(pattern_parts, first, Len(pattern_parts))
    IN  IF is_absolute_pattern
        THEN IF base_parts # <<>>
             THEN [base_dir |-> Resolve(f, python,
                                        PathOf(<<"/">> \o Join(base_parts, "/"))),
                   search_pattern |-> IF search_parts # <<>>
                                      THEN Join(search_parts, "/") ELSE <<"*">>]
             ELSE [base_dir |-> Resolve(f, python, AbsPath(<<>>)),
                   search_pattern |-> LStripSlash(normalized_pattern)]
        ELSE [base_dir |-> _resolve_base_directory(f, python, base_directory,
                                                   config_file_path),
              search_pattern |-> normalized_pattern]

\* a set of paths in the order the filesystem enumerates it
Enumerate(S, order) == SelectSeq(order, LAMBDA m : m \in S)

\* sorted(file_matches, key=lambda p: str(p))
SortedByStr(file_matches) ==
    LET S == {file_matches[i] : i \in DOMAIN file_matches} IN
    CHOOSE s \in Perms(S) :
        \A i, j \in DOMAIN s : i < j => StrLess(PStr(s[i]), PStr(s[j]))

\* max(file_matches, key=lambda p: p.stat().st_mtime): the first of the
\* greatest in the order of file_matches
MaxByMtime(f, file_matches) ==
    LET i == CHOOSE k \in DOMAIN file_matches :
                 /\ \A j \in DOMAIN file_matches :
                        Stat(f, file_matches[j]).mtime <= Stat(f, file_matches[k]).mtime
                 /\ \A j \in 1..(k - 1) :
                        Stat(f, file_matches[j]).mtime < Stat(f, file_matches[k]).mtime
    IN  file_matches[i]

Ok(kind, val) == [kind |-> kind, val |-> val]
Raise(kind) == [kind |-> kind, val |-> <<>>]

\* every strategy processed as "all"
SelectByStrategy_always_all(f, file_matches, match_strategy) ==
    Ok("list", SortedByStr(file_matches))

\* "first" without the sort: the first match in enumeration order
SelectByStrategy_unsorted(f, file_matches, match_strategy) ==
    IF match_strategy = "all" THEN Ok("list", SortedByStr(file_matches))
    ELSE IF match_strategy = "latest" THEN Ok("path", MaxByMtime(f, file_matches))
    ELSE Ok("path", file_matches[1])

\* lines 215-224: the match strategy applied to the validated file matches
SelectByStrategy(f, file_matches, match_strategy) ==
    IF match_strategy = "all" THEN Ok("list", SortedByStr(file_matches))
    ELSE IF match_strategy = "latest" THEN Ok("path", MaxByMtime(f, file_matches))
    ELSE Ok("path", SortedByStr(file_matches)[1])

\* the matches outside base_dir dropped in place of failing the call
ValidateMatches_filtering(f, python, file_matches, base_dir) ==
    LET kept == SelectSeq(file_matches, LAMBDA m :
                    LET v == validate_path_within_base(f, python, m, base_dir)
                    IN  v.kind = "bool" /\ v.val)
    IN  IF kept = <<>> THEN Raise("FileNotFoundError") ELSE Ok("ok", kept)

\* lines 207-213: every file match is validated, in order, against
\* base_dir; the first that is not inside it ends the call
ValidateMatches(f, python, file_matches, base_dir) ==
    LET v == [i \in DOMAIN file_matches |->
                 validate_path_within_base(f, python, file_matches[i], base_dir)]
        bad == {i \in DOMAIN file_matches : v[i].kind # "bool" \/ ~v[i].val}
    IN  IF bad = {} THEN Ok("ok", file_matches)
        ELSE LET i == CHOOSE k \in bad : \A j \in bad : k <= j IN
             IF v[i].kind = "bool" THEN Raise("ValueError") ELSE Raise("RuntimeError")

\* order: the order in which the filesystem enumerates the glob's matches
find_files_by_pattern(f, python, pattern, base_directory, config_file_path, match_strategy, order) ==
    LET plan == SearchPlan(f, python, pattern, base_directory, config_file_path)
        search_base == plan.base_dir.path
    IN  IF plan.base_dir.kind # "ok" THEN Raise("RuntimeError")
        ELSE IF ~Exists(f, search_base) THEN Raise("FileNotFoundError")
        ELSE IF ~IsDir(f, search_base) THEN Raise("ValueError")
        ELSE LET matches == Enumerate(glob(f, search_base, plan.search_pattern), order)
                 file_matches == SelectSeq(matches, LAMBDA m : IsFile(f, m))
             IN  IF file_matches = <<>> THEN Raise("FileNotFoundError")
                 ELSE LET valid == ValidateMatches(f, python, file_matches,
                                                   search_base)
                      IN  IF valid.kind # "ok" THEN valid
                          ELSE SelectByStrategy(f, valid.val, match_strategy)

\* the matches the glob of a call yields, for the choice of their order
GlobOf(f, python, pattern, base_directory, config_file_path) ==
    LET plan == SearchPlan(f, python, pattern, base_directory, config_file_path)
    IN  IF plan.base_dir.kind # "ok" THEN {}
        ELSE glob(f, plan.base_dir.path, plan.search_pattern)

\* the existence check made before the validation: a missing candidate
\* goes to the pattern search without having been validated
ExactThenPattern_exists_first(f, python, candidate, base_dir, source, base_directory, config_file_path, match_strategy, order) ==
    LET valid == validate_path_within_base(f, python, candidate, base_dir) IN
    IF ~(Exists(f, candidate) /\ IsFile(f, candidate))
    THEN [globbed |-> TRUE] @@
         find_files_by_pattern(f, python, source, base_directory,
                               config_file_path, match_strategy, order)
    ELSE IF valid.kind # "bool" THEN [globbed |-> FALSE] @@ Raise("RuntimeError")
    ELSE IF ~valid.val THEN [globbed |-> FALSE] @@ Raise("ValueError")
    ELSE [globbed |-> FALSE] @@ Ok("path", candidate)

\* the source tried as a pattern before the exact-match check
ExactThenPattern_pattern_first(f, python, candidate, base_dir, source, base_directory, config_file_path, match_strategy, order) ==
    LET valid == validate_path_within_base(f, python, candidate, base_dir)
        found == find_files_by_pattern(f, python, source, base_directory,
                                       config_file_path, match_strategy, order)
    IN  IF valid.kind # "bool" THEN [globbed |-> FALSE] @@ Raise("RuntimeError")
        ELSE IF ~valid.val THEN [globbed |-> FALSE] @@ Raise("ValueError")
        ELSE IF found.kind \in {"path", "list"} THEN [globbed |-> TRUE] @@ found
        ELSE IF Exists(f, candidate) /\ IsFile(f, candidate)
             THEN [globbed |-> TRUE] @@ Ok("path", candidate)
        ELSE [globbed |-> TRUE] @@ found

\* lines 261-280 and 282-301 share their shape: the candidate is validated
\* against base_dir first, returned if it is an existing regular file, and
\* the source is tried as a pattern otherwise. globbed records whether
\* find_files_by_pattern was called.
ExactThenPattern(f, python, candidate, base_dir, source, base_directory, config_file_path, match_strategy, order) ==
    LET valid == validate_path_within_base(f, python, candidate, base_dir) IN
    IF valid.kind # "bool" THEN [globbed |-> FALSE] @@ Raise("RuntimeError")
    ELSE IF ~valid.val THEN [globbed |-> FALSE] @@ Raise("ValueError")
    ELSE IF Exists(f, candidate) /\ IsFile(f, candidate)
         THEN [globbed |-> FALSE] @@ Ok("path", candidate)
    ELSE [globbed |-> TRUE] @@
         find_files_by_pattern(f, python, source, base_directory,
                               config_file_path, match_strategy, order)

resolve_file_path(f, python, source, base_directory, config_file_path, match_strategy, order) ==
    LET base_dir == _resolve_base_directory(f, python, base_directory,
                                            config_file_path)
        source_path == PathOf(source)
        is_absolute == source_path.abs \/ StartsWith(source, "/")
        candidate == Resolve(f, python,
                             IF is_absolute THEN source_path
                             ELSE PJoin(base_dir.path, source_path))
    IN  IF base_dir.kind # "ok" \/ candidate.kind # "ok"
        THEN [globbed |-> FALSE] @@ Raise("RuntimeError")
        ELSE ExactThenPattern(f, python, candidate.path, base_dir.path, source,
                              base_directory, config_file_path, match_strategy, order)

----------------------------------------------------------------------------
(* More of Python's str, for format names, extensions and hints.           *)

UpperCase ==
    <<"A", "B", "C", "D", "E", "F", "G", "H", "I", "J", "K", "L", "M",
      "N", "O", "P", "Q", "R", "S", "T", "U", "V", "W", "X", "Y", "Z">>
LowerCase ==
    <<"a", "b", "c", "d", "e", "f", "g", "h", "i", "j", "k", "l", "m",
      "n", "o", "p", "q", "r", "s", "t", "u", "v", "w", "x", "y", "z">>

\* [A-Z]
IsUpper(ch) == \E i \in DOMAIN UpperCase : UpperCase[i] = ch

\* s.lower()
Lower(s) ==
    [i \in DOMAIN s |->
        IF IsUpper(s[i])
        THEN LowerCase[CHOOSE k \in DOMAIN UpperCase : UpperCase[k] = s[i]]
        ELSE s[i]]

\* s.startswith(prefix) and s.endswith(suffix) for strings
HasPrefix(s, prefix) ==
    Len(prefix) <= Len(s) /\ SubSeq(s, 1, Len(prefix)) = prefix
EndsWith(s, suffix) ==
    Len(suffix) <= Len(s) /\ SubSeq(s, Len(s) - Len(suffix) + 1, Len(s)) = suffix

\* s.replace(old, new) for a non-empty old: non-overlapping, left to right
RECURSIVE Replace(_, _, _)
Replace(s, old, new) ==
    IF s = <<>> THEN <<>>
    ELSE IF HasPrefix(s, old)
         THEN new \o Replace(SubSeq(s, Len(old) + 1, Len(s)), old, new)
    ELSE <<Head(s)>> \o Replace(Tail(s), old, new)

\* s.rsplit('.', 1)[1] for an s that holds a dot: what follows the last dot
AfterLastDot(s) ==
    LET i == CHOOSE k \in 1..Len(s) :
                 s[k] = "." /\ \A j \in (k + 1)..Len(s) : s[j] # "."
    IN  SubSeq(s, i + 1, Len(s))

----------------------------------------------------------------------------
(* format_handler/base/handler.py and format_handler/handlers: a handler   *)
(* is an instance of a class; what it answers depends on its class only.   *)

sFormatHandler ==
    <<"F", "o", "r", "m", "a", "t", "H", "a", "n", "d", "l", "e", "r">>
sCSV == <<"C", "S", "V">>

scsv == <<"c", "s", "v">>
stxt == <<"t", "x", "t">>
scustom_txt == <<"c", "u", "s", "t", "o", "m", "_", "t", "x", "t">>
sparquet == <<"p", "a", "r", "q", "u", "e", "t">>
spqt == <<"p", "q", "t">>
ssas7bdat == <<"s", "a", "s", "7", "b", "d", "a", "t">>

\* '.' + s
DotExt(s) == <<".">> \o s

\* re.sub(r'(?<!^)(?=[A-Z])', '_', s): an underscore goes before every
\* upper-case letter that is not the first character
RECURSIVE UnderscoreBeforeUpper(_, _)
UnderscoreBeforeUpper(s, at_start) ==
    IF s = <<>> THEN <<>>
    ELSE (IF IsUpper(Head(s)) /\ ~at_start THEN <<"_">> ELSE <<>>)
         \o <<Head(s)>> \o UnderscoreBeforeUpper(Tail(s), FALSE)

\* FileFormatHandler.get_format_name, from the name of the class
FormatNameOfClass(class_name) ==
    Lower(UnderscoreBeforeUpper(Replace(class_name, sFormatHandler, <<>>), TRUE))

\* the handler classes: the three built-in ones, the SAS7BDAT handler of the
\* handlers package, which no registry registers by itself, and two
\* subclasses of
\* FileFormatHandler that implement the abstract methods their own way:
\* Upper declares the extension '.CSV', names its format 'CSV' and accepts
\* every source; Lower declares no extension, names its format 'csv' and
\* accepts every source
CSVFormatHandler == "CSVFormatHandler"
CustomTXTFormatHandler == "CustomTXTFormatHandler"
ParquetFormatHandler == "ParquetFormatHandler"
SAS7BDATFormatHandler == "SAS7BDATFormatHandler"
UpperFormatHandler == "UpperFormatHandler"
LowerFormatHandler == "LowerFormatHandler"

\* cls.__name__, character by character
ClassName(cls) ==
    CASE cls = CSVFormatHandler -> sCSV \o sFormatHandler
      [] cls = CustomTXTFormatHandler ->
            <<"C", "u", "s", "t", "o", "m", "T", "X", "T">> \o sFormatHandler
      [] cls = ParquetFormatHandler ->
            <<"P", "a", "r", "q", "u", "e", "t">> \o sFormatHandler
      [] cls = SAS7BDATFormatHandler ->
            <<"S", "A", "S", "7", "B", "D", "A", "T">> \o sFormatHandler
      [] cls = UpperFormatHandler -> <<"U", "p", "p", "e", "r">> \o sFormatHandler
      [] cls = LowerFormatHandler -> <<"L", "o", "w", "e", "r">> \o sFormatHandler

\* an instance of a class
Handler(cls) == [cls |-> cls]

\* handler.get_format_name(): Upper and Lower override it
get_format_name(handler) ==
    IF handler.cls = UpperFormatHandler THEN sCSV
    ELSE IF handler.cls = LowerFormatHandler THEN scsv
    ELSE FormatNameOfClass(ClassName(handler.cls))

\* handler.get_supported_extensions()
get_supported_extensions(handler) ==
    CASE handler.cls = CSVFormatHandler -> <<DotExt(scsv)>>
      [] handler.cls = CustomTXTFormatHandler -> <<DotExt(stxt)>>
      [] handler.cls = ParquetFormatHandler -> <<DotExt(sparquet), DotExt(spqt)>>
      [] handler.cls = SAS7BDATFormatHandler -> <<DotExt(ssas7bdat)>>
      [] handler.cls = UpperFormatHandler -> <<DotExt(sCSV)>>
      [] handler.cls = LowerFormatHandler -> <<>>

\* a Python value that is truthy: an Optional[str] that is given and not ''
Truthy(opt) == opt.some /\ opt.v # <<>>

\* handler.can_handle(source, format_hint)
can_handle(handler, source, format_hint) ==
    CASE handler.cls = CSVFormatHandler ->
            IF Truthy(format_hint) /\ Lower(format_hint.v) = scsv THEN TRUE
            ELSE EndsWith(Lower(source), DotExt(scsv))
      [] handler.cls = CustomTXTFormatHandler ->
            IF Truthy(format_hint)
            THEN Lower(format_hint.v) \in {scustom_txt, stxt}
            ELSE EndsWith(Lower(source), DotExt(stxt))
      [] handler.cls = ParquetFormatHandler ->
            IF Truthy(format_hint) /\ Lower(format_hint.v) = sparquet THEN TRUE
            ELSE \/ EndsWith(Lower(source), DotExt(sparquet))
                 \/ EndsWith(Lower(source), DotExt(spqt))
      [] handler.cls = SAS7BDATFormatHandler ->
            IF Truthy(format_hint) /\ Lower(format_hint.v) = ssas7bdat THEN TRUE
            ELSE EndsWith(Lower(source), DotExt(ssas7bdat))
      [] handler.cls = UpperFormatHandler -> TRUE
      [] handler.cls = LowerFormatHandler -> TRUE

----------------------------------------------------------------------------
(* format_handler/registry.py: a registry is its three fields.             *)

\* FormatRegistry.__init__
EmptyRegistry ==
    [_handlers |-> <<>>, _extension_map |-> <<>>, _format_name_map |-> <<>>]

\* d.setdefault(key, value): a key that is mapped keeps its value
DictSet_setdefault(d, key, value) ==
    [k \in DOMAIN d \cup {key} |-> IF k \in DOMAIN d THEN d[k] ELSE value]

\* d[key] = value
DictSet(d, key, value) ==
    [k \in DOMAIN d \cup {key} |-> IF k = key THEN value ELSE d[k]]

\* a sort by descending priority that is not stable: an entry goes before
\* the entries of its priority
RECURSIVE SortByPriorityDescending_unstable(_)
SortByPriorityDescending_unstable(entries) ==
    IF entries = <<>> THEN <<>>
    ELSE LET n == Len(entries)
             sorted == SortByPriorityDescending_unstable(SubSeq(entries, 1, n - 1))
             last == entries[n]
             ahead == SelectSeq(sorted, LAMBDA e : e[1] > last[1])
             behind == SelectSeq(sorted, LAMBDA e : e[1] <= last[1])
         IN  ahead \o <<last>> \o behind

\* list.sort(key=lambda x: x[0], reverse=True): a stable sort, equal keys
\* keep their order; this is the insertion of the entries one by one, each
\* after the entries whose priority is not lower
RECURSIVE SortByPriorityDescending(_)
SortByPriorityDescending(entries) ==
    IF entries = <<>> THEN <<>>
    ELSE LET n == Len(entries)
             sorted == SortByPriorityDescending(SubSeq(entries, 1, n - 1))
             last == entries[n]
             ahead == SelectSeq(sorted, LAMBDA e : e[1] >= last[1])
             behind == SelectSeq(sorted, LAMBDA e : e[1] < last[1])
         IN  ahead \o <<last>> \o behind

\* the loop of register when an extension is mapped as it is declared
RECURSIVE MapExtensions_as_declared(_, _, _)
MapExtensions_as_declared(extension_map, exts, handler) ==
    IF exts = <<>> THEN extension_map
    ELSE MapExtensions_as_declared(
             IF Head(exts) \notin DOMAIN extension_map
             THEN DictSet(extension_map, Head(exts), handler)
             ELSE extension_map,
             Tail(exts), handler)

\* the loop over handler.get_supported_extensions() in register
RECURSIVE MapExtensions(_, _, _)
MapExtensions(extension_map, exts, handler) ==
    IF exts = <<>> THEN extension_map
    ELSE MapExtensions(
             IF Head(exts) \notin DOMAIN extension_map
             THEN DictSet(extension_map, Lower(Head(exts)), handler)
             ELSE extension_map,
             Tail(exts), handler)

\* FormatRegistry.register(handler, priority)
register(r, handler, priority) ==
    [_handlers |->
        SortByPriorityDescending(Append(r._handlers, <<priority, handler>>)),
     _extension_map |->
        MapExtensions(r._extension_map, get_supported_extensions(handler), handler),
     _format_name_map |->
        DictSet(r._format_name_map, Lower(get_format_name(handler)), handler)]

\* the first handler of the list that can handle the source, if any
FirstThatCanHandle(handlers, source, format_hint) ==
    LET can == {i \in DOMAIN handlers : can_handle(handlers[i][2], source, format_hint)}
    IN  IF can = {} THEN None
        ELSE Some(handlers[CHOOSE i \in can : \A j \in can : i <= j][2])

\* the second step on when the last scan asks no handler whether it can
\* handle the source: the first of the list is returned
ByExtensionThenScan_unasked(r, source) ==
    LET ext == DotExt(Lower(AfterLastDot(source)))
    IN  IF Contains(source, ".") /\ ext \in DOMAIN r._extension_map
        THEN Ok("handler", r._extension_map[ext])
        ELSE IF r._handlers # <<>> THEN Ok("handler", r._handlers[1][2])
        ELSE Raise("ValueError")

\* get_handler from its second step on: the extension map, then every
\* handler in the order of the list
ByExtensionThenScan(r, source) ==
    LET ext == DotExt(Lower(AfterLastDot(source)))
        scanned == FirstThatCanHandle(r._handlers, source, None)
    IN  IF Contains(source, ".") /\ ext \in DOMAIN r._extension_map
        THEN Ok("handler", r._extension_map[ext])
        ELSE IF scanned.some THEN Ok("handler", scanned.v)
        ELSE Raise("ValueError")

\* get_handler when an override that matches nothing ends the search
get_handler_override_only(r, source, format_override) ==
    IF Truthy(format_override)
    THEN LET format_key == Lower(format_override.v)
             hinted == FirstThatCanHandle(r._handlers, source, format_override)
         IN  IF format_key \in DOMAIN r._format_name_map
             THEN Ok("handler", r._format_name_map[format_key])
             ELSE IF hinted.some THEN Ok("handler", hinted.v)
             ELSE Raise("ValueError")
    ELSE ByExtensionThenScan(r, source)

\* get_handler when the scan with the hint comes before the name lookup
get_handler_hint_scan_first(r, source, format_override) ==
    IF Truthy(format_override)
    THEN LET format_key == Lower(format_override.v)
             hinted == FirstThatCanHandle(r._handlers, source, format_override)
         IN  IF hinted.some THEN Ok("handler", hinted.v)
             ELSE IF format_key \in DOMAIN r._format_name_map
                  THEN Ok("handler", r._format_name_map[format_key])
             ELSE ByExtensionThenScan(r, source)
    ELSE ByExtensionThenScan(r, source)

\* FormatRegistry.get_handler(source, format_override)
get_handler(r, source, format_override) ==
    IF Truthy(format_override)
    THEN LET format_key == Lower(format_override.v)
             hinted == FirstThatCanHandle(r._handlers, source, format_override)
         IN  IF format_key \in DOMAIN r._format_name_map
             THEN Ok("handler", r._format_name_map[format_key])
             ELSE IF hinted.some THEN Ok("handler", hinted.v)
             ELSE ByExtensionThenScan(r, source)
    ELSE ByExtensionThenScan(r, source)

\* _register_default_handlers on a new registry: what get_default_registry
\* returns
DefaultRegistry ==
    register(register(register(EmptyRegistry, Handler(CSVFormatHandler), 10),
                      Handler(ParquetFormatHandler), 8),
             Handler(CustomTXTFormatHandler), 5)

----------------------------------------------------------------------------
(* data_loader/sources/local.py and data_loader/base/loader.py: a          *)
(* LocalFileLoader configured with a base directory and a config file      *)
(* path, whose format registry is the default registry. The files of the   *)
(* filesystem are readable, and their contents are tables that the         *)
(* handler chosen for them loads.                                          *)

\* LocalFileLoader.validate_source(source): the strategy is "first", whose
\* result does not depend on the order of enumeration. (resolved_path is
\* assigned once: it is bound to the value of the call.)
validate_source(f, python, source, base_directory, config_file_path, order) ==
    CHOOSE out \in
        {IF resolved_path.kind = "RuntimeError" THEN Raise("RuntimeError")
         ELSE IF resolved_path.kind \in {"FileNotFoundError", "ValueError"}
              THEN Ok("bool", FALSE)
         ELSE Ok("bool", IsFile(f, resolved_path.val)) :
            resolved_path \in {resolve_file_path(f, python, source, base_directory, config_file_path, "first", order)}} : TRUE

\* handler = get_handler(str(file_path), format_override=format) and
\* handler.load(str(file_path)) for each of the files, in their order
RECURSIVE LoadEach(_, _, _)
LoadEach(r, file_paths, format) ==
    IF file_paths = <<>> THEN Ok("DataFrame", <<>>)
    ELSE LET handler == get_handler(r, PStr(Head(file_paths)), format)
             others == LoadEach(r, Tail(file_paths), format)
         IN  IF handler.kind = "ValueError" THEN Raise("ValueError")
             ELSE IF others.kind = "ValueError" THEN Raise("ValueError")
             ELSE Ok("DataFrame",
                     <<[file |-> Head(file_paths), handler |-> handler.val]>>
                     \o others.val)

\* LocalFileLoader._load_raw_data(source, format, match_strategy)
_load_raw_data(f, python, r, source, base_directory, config_file_path, format, match_strategy, order) ==
    CHOOSE out \in
        {IF resolved_path.kind \in {"FileNotFoundError", "ValueError", "RuntimeError"}
         THEN Raise(resolved_path.kind)
         ELSE IF match_strategy = "all" /\ resolved_path.kind = "list"
              THEN LoadEach(r, resolved_path.val, format)
         ELSE LoadEach(r, <<IF resolved_path.kind = "list"
                            THEN resolved_path.val[1]
                            ELSE resolved_path.val>>, format) :
            resolved_path \in {resolve_file_path(f, python, source, base_directory, config_file_path, match_strategy, order)}} : TRUE

\* BaseLoader.get_data(source, validate_before_load, format=, match_strategy=)
get_data(f, python, r, source, base_directory, config_file_path, format, match_strategy, validate_before_load, order) ==
    CHOOSE out \in
        {IF valid.kind = "RuntimeError" THEN Raise("RuntimeError")
         ELSE IF ~valid.val THEN Raise("ValueError")
         ELSE _load_raw_data(f, python, r, source, base_directory, config_file_path, format, match_strategy, order) :
            valid \in {IF validate_before_load
                       THEN validate_source(f, python, source, base_directory, config_file_path, order)
                       ELSE Ok("bool", TRUE)}} : TRUE

----------------------------------------------------------------------------
(* The requests a client makes, one at a time, against a filesystem that   *)
(* does not change during the request.                                     *)

Rel(parts) == Join(parts, "/")
Abs(parts) == <<"/">> \o Join(parts, "/")

pStar == <<"*">>
pTstar == <<"T", "*">>
pdstar == <<"d", "*">>
pdq == <<"d", "?">>
pzzstar == <<"z", "z", "*">>
pStarStar == <<"*", "*">>

\* source and pattern strings
RelSources ==
    {Rel(<<pTstar, pdstar>>), Rel(<<nastar>>), Rel(<<nab>>), Rel(<<nTa, nd1>>),
     Rel(<<pzzstar>>), Rel(<<DotDot, DotDot, ne, np>>), Rel(<<nle, pStar>>),
     Rel(<<nlp>>), Rel(<<pStar, pStar>>), Rel(<<nTa>>), Rel(<<pdq>>)}
AbsSources ==
    {Abs(<<nc, nTa, nd1>>), Abs(<<nc, pTstar, pdstar>>), Abs(<<ne, pStar>>),
     Abs(<<pStar, DotDot, nc, nx>>), Abs(<<nc, nTa>>), Abs(<<ncdash, nf>>),
     Abs(<<nc, nab, pStar>>), Abs(<<ne, np>>), Abs(<<nc, pStarStar, pdstar>>)}
Sources == RelSources \cup AbsSources

\* (base_directory, config_file_path) pairs
Bases ==
    {[dir |-> Some(Abs(<<nc>>)), cfg |-> None],
     [dir |-> Some(Rel(<<nTa>>)), cfg |-> Some(AbsPath(<<nc, nk>>))],
     [dir |-> Some(Abs(<<nc, nab>>)), cfg |-> None],
     [dir |-> Some(Abs(<<nc, nzz>>)), cfg |-> None],
     [dir |-> Some(Abs(<<nc, nle>>)), cfg |-> None]}

Strategies == {"first", "latest", "all"}

\* match_strategy is a str that nothing checks against the Literal of the
\* signature: the tokens callers pass, one of them outside the set
StrategyTokens == Strategies \cup {"newest"}

\* candidates and roots handed to validate_path_within_base
ValPaths ==
    {AbsPath(<<nc, nTa, nd1>>), AbsPath(<<ncdash, nf>>), AbsPath(<<nc, nle, np>>),
     AbsPath(<<nc, nlp>>), AbsPath(<<nc, nzz, nx>>), AbsPath(<<nc, DotDot, ne, np>>),
     AbsPath(<<ne, np>>), AbsPath(<<nc>>), AbsPath(<<>>),
     [abs |-> FALSE, parts |-> <<nTa, nd1>>]}
ValRoots ==
    {AbsPath(<<nc>>), AbsPath(<<nc, nTa>>), AbsPath(<<ne>>), AbsPath(<<nc, nle>>),
     AbsPath(<<>>), AbsPath(<<nc, nlp>>)}

VARIABLES
    fs,          \* the filesystem
    python,      \* the Python that runs the program
    pc,          \* "idle", or "done" when call and result hold a finished request
    call,        \* the request made
    result,      \* what it returned or raised
    registry,    \* the FormatRegistry the requests for a handler go to
    registered,  \* the handlers registered with it, in the order of the calls
    objects,     \* the FormatRegistry objects constructed for the module's
                 \* _default_registry, in the order of their construction
    _default_config_path   \* the module's global of that name

vars ==
    <<fs, python, pc, call, result, registry, registered, objects,
      _default_config_path>>

NoPath == AbsPath(<<>>)
NoCall ==
    [op |-> "none", source |-> <<>>, base_directory |-> None,
     config_file_path |-> None, match_strategy |-> "first", order |-> <<>>,
     path |-> NoPath, root |-> NoPath, format |-> None,
     validate_before_load |-> FALSE]
NoResult == [kind |-> "none", val |-> <<>>, globbed |-> FALSE]

\* the layouts: no optional feature, each one alone, and the pairs in which
\* one feature changes what another does
Layouts ==
    {{}} \cup {{x} : x \in Extras}
    \cup {{"star", "esclink"}, {"esclink", "nopasswd"}, {"loop", "esclink"}}

Init ==
    /\ \E ex \in Layouts : \E mt \in [{"d1", "d2"} -> 1..MaxMtime] :
        /\ fs = MkFs(Layout(ex, mt))
        \* the two Pythons differ only where a symlink loop exists
        /\ python \in (IF "loop" \in ex THEN Pythons ELSE {"3.12"})
    /\ pc = "idle"
    /\ call = NoCall
    /\ result = NoResult
    /\ registry = EmptyRegistry
    /\ registered = <<>>
    /\ objects = <<>>
    /\ _default_config_path = None

ValidatePathWithinBase ==
    /\ pc = "idle"
    /\ \E resolved_path \in ValPaths, base_directory \in ValRoots :
        /\ call' = [NoCall EXCEPT !.op = "validate_path_within_base",
                                  !.path = resolved_path, !.root = base_directory]
        /\ result' = [globbed |-> FALSE] @@
                     validate_path_within_base(fs, python, resolved_path,
                                               base_directory)
    /\ pc' = "done"
    /\ UNCHANGED <<fs, python, registry, registered, objects, _default_config_path>>

FindFilesByPattern ==
    /\ pc = "idle"
    /\ \E pattern \in Sources, b \in Bases, match_strategy \in StrategyTokens :
       \E order \in Perms(GlobOf(fs, python, pattern, b.dir, b.cfg)) :
        /\ call' = [NoCall EXCEPT !.op = "find_files_by_pattern",
                                  !.source = pattern, !.base_directory = b.dir,
                                  !.config_file_path = b.cfg,
                                  !.match_strategy = match_strategy,
                                  !.order = order]
        /\ result' = [globbed |-> TRUE] @@
                     find_files_by_pattern(fs, python, pattern, b.dir, b.cfg,
                                           match_strategy, order)
    /\ pc' = "done"
    /\ UNCHANGED <<fs, python, registry, registered, objects, _default_config_path>>

ResolveFilePath ==
    /\ pc = "idle"
    /\ \E source \in Sources, b \in Bases, match_strategy \in StrategyTokens :
       \E order \in Perms(GlobOf(fs, python, source, b.dir, b.cfg)) :
        /\ call' = [NoCall EXCEPT !.op = "resolve_file_path",
                                  !.source = source, !.base_directory = b.dir,
                                  !.config_file_path = b.cfg,
                                  !.match_strategy = match_strategy,
                                  !.order = order]
        /\ result' = resolve_file_path(fs, python, source, b.dir, b.cfg,
                                       match_strategy, order)
    /\ pc' = "done"
    /\ UNCHANGED <<fs, python, registry, registered, objects, _default_config_path>>

\* the caller takes the result; the next request can be made
Return ==
    /\ pc = "done"
    /\ pc' = "idle"
    /\ call' = NoCall
    /\ result' = NoResult
    /\ UNCHANGED <<fs, python, registry, registered, objects, _default_config_path>>

Next == ValidatePathWithinBase \/ FindFilesByPattern \/ ResolveFilePath \/ Return

Spec == Init /\ [][Next]_vars

----------------------------------------------------------------------------
(* What the claims speak of.                                               *)

Done(op) == pc = "done" /\ call.op = op

\* root is an ancestor of p, or p itself, segment by segment
IsWithin(p, root) ==
    /\ Len(root.parts) <= Len(p.parts)
    /\ SubSeq(p.parts, 1, Len(root.parts)) = root.parts

\* the canonical form of a path that exists, as the kernel resolves it
Canonical(p) == AbsPath(OsWalk(fs, <<>>, FromRoot(p), {}).at)

\* the paths a finished request returned
Returned ==
    IF result.kind = "path" THEN {result.val}
    ELSE IF result.kind = "list" THEN {result.val[i] : i \in DOMAIN result.val}
    ELSE {}

\* the base directory configured for the request
CallBase == _resolve_base_directory(fs, python, call.base_directory,
                                    call.config_file_path)

\* the search root and pattern of the request, and the regular files its
\* glob matches
CallPlan == SearchPlan(fs, python, call.source, call.base_directory,
                       call.config_file_path)
CallFiles ==
    {m \in GlobOf(fs, python, call.source, call.base_directory,
                  call.config_file_path) : IsFile(fs, m)}
CallSearchable ==
    /\ CallPlan.base_dir.kind = "ok"
    /\ IsDir(fs, CallPlan.base_dir.path)

\* the candidate of the exact-match check: the source joined to the base
CallExact == Resolve(fs, python, PJoin(CallBase.path, PathOf(call.source)))

\* C1: every path resolve_file_path returns exists, is a regular file, and
\* its canonical form lies within the canonical base directory of the
\* request.
C1_ResolvedInsideBase ==
    Done("resolve_file_path") =>
        \A m \in Returned :
            /\ Exists(fs, m)
            /\ IsFile(fs, m)
            /\ IsWithin(Canonical(m), CallBase.path)

\* C2: validate_path_within_base(P, R) is true exactly when canonical R is
\* the common path, by segments, of canonical P and canonical R; the
\* sibling /c-/f of the root /c is not within it.
C2_WithinIffCommonAncestor ==
    (Done("validate_path_within_base") /\ result.kind = "bool") =>
        /\ result.val = IsWithin(Resolve(fs, python, call.path).path,
                                 Resolve(fs, python, call.root).path)
        /\ (call.path = AbsPath(<<ncdash, nf>>) /\ call.root = AbsPath(<<nc>>))
               => result.val = FALSE

C2_Witness ==
    /\ Done("validate_path_within_base")
    /\ call.path = AbsPath(<<ncdash, nf>>)
    /\ call.root = AbsPath(<<nc>>)
    /\ result.kind = "bool"
    /\ result.val = FALSE

\* resolve() fails on p: a symlink loop is met (a missing component is no
\* failure of the non-strict resolve, it is kept as written)
CanonicalizationFails(p) == ~JoinRealPath(fs, <<>>, FromRoot(p), {}).ok

\* C3: validate_path_within_base never raises, and it returns false
\* whenever canonicalizing either path fails.
C3_FailClosedNeverRaises ==
    Done("validate_path_within_base") =>
        /\ result.kind = "bool"
        /\ (CanonicalizationFails(call.path) \/ CanonicalizationFails(call.root))
               => result.val = FALSE

\* C4: a relative source whose join with the base directory canonicalizes
\* outside the base fails with ValueError, whether or not the target
\* exists, never with FileNotFoundError.
C4_EscapeIsValueError ==
    (/\ Done("resolve_file_path")
     /\ ~StartsWith(call.source, "/")
     /\ CallBase.kind = "ok"
     /\ CallExact.kind = "ok"
     /\ ~IsWithin(CallExact.path, CallBase.path))
        => result.kind = "ValueError"

C4_Witness ==
    /\ Done("resolve_file_path")
    /\ call.source = Rel(<<DotDot, DotDot, ne, np>>)
    /\ call.base_directory = Some(Abs(<<nc>>))
    /\ ~Exists(fs, AbsPath(<<ne, np>>))
    /\ result.kind = "ValueError"

C6_AbsoluteValidatedAgainstConfiguredRoot ==
    (/\ Done("find_files_by_pattern")
     /\ StartsWith(call.source, "/")
     /\ CallBase.kind = "ok")
        => \A m \in Returned : IsWithin(Canonical(m), CallBase.path)

\* C7: when the source joined to the root is an existing regular file
\* inside the root, resolve_file_path returns that file and expands no
\* pattern, also when the name holds wildcard characters that other files
\* match.
C7_ExactMatchFirst ==
    (/\ Done("resolve_file_path")
     /\ CallBase.kind = "ok"
     /\ CallExact.kind = "ok"
     /\ IsWithin(CallExact.path, CallBase.path)
     /\ IsFile(fs, CallExact.path))
        => /\ result.kind = "path"
           /\ result.val = CallExact.path
           /\ ~result.globbed

C7_Witness ==
    /\ Done("resolve_file_path")
    /\ call.source = Rel(<<nastar>>)
    /\ call.base_directory = Some(Abs(<<nc>>))
    /\ call.match_strategy = "all"
    /\ CallFiles = {AbsPath(<<nc, nastar>>), AbsPath(<<nc, nab>>)}
    /\ result.kind = "path"
    /\ result.val = AbsPath(<<nc, nastar>>)
    /\ ~result.globbed

\* C8: with strategy "first", find_files_by_pattern returns the smallest
\* str(path) among all regular files the pattern matches, whatever the
\* order in which the filesystem enumerates them.
C8_FirstIsSmallest ==
    (/\ Done("find_files_by_pattern")
     /\ call.match_strategy = "first"
     /\ result.kind = "path")
        => /\ result.val \in CallFiles
           /\ \A m \in CallFiles :
                  m = result.val \/ StrLess(PStr(result.val), PStr(m))

C8_Witness ==
    /\ Done("find_files_by_pattern")
    /\ call.match_strategy = "first"
    /\ call.source = Rel(<<pTstar, pdstar>>)
    /\ call.base_directory = Some(Abs(<<nc>>))
    /\ call.order = <<AbsPath(<<nc, nTb, nd2>>), AbsPath(<<nc, nTa, nd1>>)>>
    /\ result.kind = "path"
    /\ result.val = AbsPath(<<nc, nTa, nd1>>)

\* C9: with strategy "latest", find_files_by_pattern returns a match of
\* the greatest modification time, and the same one for every order in
\* which the filesystem enumerates the matches.
C9_LatestDeterministic ==
    (/\ Done("find_files_by_pattern")
     /\ call.match_strategy = "latest"
     /\ result.kind = "path")
        => /\ \A m \in CallFiles : Stat(fs, m).mtime <= Stat(fs, result.val).mtime
           /\ \A order \in Perms(GlobOf(fs, python, call.source,
                                        call.base_directory, call.config_file_path)) :
                  find_files_by_pattern(fs, python, call.source,
                                        call.base_directory, call.config_file_path,
                                        "latest", order).val = result.val

\* C10: find_files_by_pattern fails with FileNotFoundError when the search
\* root is missing, when it is not a directory, and when no regular file
\* matches.
C10_NotFoundCases ==
    (/\ Done("find_files_by_pattern")
     /\ CallPlan.base_dir.kind = "ok"
     /\ \/ ~Exists(fs, CallPlan.base_dir.path)
        \/ ~IsDir(fs, CallPlan.base_dir.path)
        \/ CallFiles = {})
        => result.kind = "FileNotFoundError"

----------------------------------------------------------------------------
(* A LocalFileLoader in use.                                               *)

\* the register calls of _register_default_handlers
DefaultRegistered ==
    << <<10, Handler(CSVFormatHandler)>>, <<8, Handler(ParquetFormatHandler)>>,
       <<5, Handler(CustomTXTFormatHandler)>> >>

\* the format= argument of get_data
Formats == {None, Some(scsv)}

\* the loader is constructed: get_default_registry() has registered the
\* built-in handlers
InitLoader ==
    /\ \E ex \in Layouts : \E mt \in [{"d1", "d2"} -> 1..MaxMtime] :
        /\ fs = MkFs(Layout(ex, mt))
        /\ python \in (IF "loop" \in ex THEN Pythons ELSE {"3.12"})
    /\ pc = "idle"
    /\ call = NoCall
    /\ result = NoResult
    /\ registry = DefaultRegistry
    /\ registered = DefaultRegistered
    /\ objects = <<>>
    /\ _default_config_path = None

GetData ==
    /\ pc = "idle"
    /\ \E source \in Sources, b \in Bases, match_strategy \in Strategies,
          format \in Formats, validate_before_load \in BOOLEAN :
       \E order \in Perms(GlobOf(fs, python, source, b.dir, b.cfg)) :
        /\ call' = [NoCall EXCEPT !.op = "get_data",
                                  !.source = source, !.base_directory = b.dir,
                                  !.config_file_path = b.cfg,
                                  !.match_strategy = match_strategy,
                                  !.format = format,
                                  !.validate_before_load = validate_before_load]
        /\ result' = get_data(fs, python, registry, source, b.dir, b.cfg, format,
                              match_strategy, validate_before_load, order)
    /\ pc' = "done"
    /\ UNCHANGED <<fs, python, registry, registered, objects, _default_config_path>>

NextLoader == GetData \/ Return

SpecLoader == InitLoader /\ [][NextLoader]_vars

\* what resolve_file_path gives for the request: an error of it does not
\* depend on the order of enumeration
CallResolved ==
    resolve_file_path(fs, python, call.source, call.base_directory,
                      call.config_file_path, call.match_strategy,
                      CHOOSE order \in Perms(GlobOf(fs, python, call.source,
                                                    call.base_directory,
                                                    call.config_file_path)) : TRUE)

\* C11: through LocalFileLoader.get_data, with and without the validation
\* step, a source that matches no file fails with FileNotFoundError and a
\* source that resolves outside the base directory fails with ValueError.
C11_NotFoundAndValidationDistinct ==
    Done("get_data") =>
        /\ CallResolved.kind = "FileNotFoundError"
               => result.kind = "FileNotFoundError"
        /\ CallResolved.kind = "ValueError" => result.kind = "ValueError"

----------------------------------------------------------------------------
(* _normalize_pattern over every pattern of a length and an alphabet.      *)

\* the longest pattern; patterns are made of '*', 'a' and '/'
MaxPatternLen == 4
Patterns == UNION {[1..n -> {"*", "a", "/"}] : n \in 0..MaxPatternLen}

\* a filesystem of the root directory alone, for the requests that read
\* none
PlainFs == MkFs({<< <<>>, Dir >>})

InitNormalize ==
    /\ fs = PlainFs
    /\ python = "3.12"
    /\ pc = "idle"
    /\ call = NoCall
    /\ result = NoResult
    /\ registry = EmptyRegistry
    /\ registered = <<>>
    /\ objects = <<>>
    /\ _default_config_path = None

NormalizePattern ==
    /\ pc = "idle"
    /\ \E pattern \in Patterns :
        /\ call' = [NoCall EXCEPT !.op = "_normalize_pattern", !.source = pattern]
        /\ result' = Ok("str", _normalize_pattern(pattern))
    /\ pc' = "done"
    /\ UNCHANGED <<fs, python, registry, registered, objects, _default_config_path>>

NextNormalize == NormalizePattern \/ Return

SpecNormalize == InitNormalize /\ [][NextNormalize]_vars

\* the recursive wildcard token occurs in s
HasRecursiveWildcard(s) ==
    \E i \in 1..(Len(s) - 1) : s[i] = "*" /\ s[i + 1] = "*"

\* C12: for every pattern, runs of three and more '*' included, what
\* _normalize_pattern returns holds no '**', and it is the same for the
\* same pattern.
C12_NoRecursiveWildcardLeft ==
    Done("_normalize_pattern") =>
        /\ ~HasRecursiveWildcard(result.val)
        /\ result.val = _normalize_pattern(call.source)

----------------------------------------------------------------------------
(* _resolve_base_directory over explicit bases that are absolute,          *)
(* relative, missing, links and absent, and config file paths that are     *)
(* absolute, relative and absent.                                          *)

BaseDirectories ==
    {None, Some(Abs(<<nc>>)), Some(Abs(<<nc, nzz>>)), Some(Abs(<<nc, nle>>)),
     Some(Abs(<<nc, nlp>>)), Some(Rel(<<nTa>>)), Some(Rel(<<DotDot, ne>>)),
     Some(Rel(<<nzz, nk>>))}
ConfigFilePaths ==
    {None, Some(AbsPath(<<nc, nk>>)), Some(AbsPath(<<nc, nTa, nk>>)),
     Some(AbsPath(<<nc, nle, nk>>)), Some([abs |-> FALSE, parts |-> <<nTa, nk>>])}

InitBase ==
    /\ \E ex \in Layouts :
        /\ fs = MkFs(Layout(ex, [x \in {"d1", "d2"} |-> 1]))
        /\ python \in (IF "loop" \in ex THEN Pythons ELSE {"3.12"})
    /\ pc = "idle"
    /\ call = NoCall
    /\ result = NoResult
    /\ registry = EmptyRegistry
    /\ registered = <<>>
    /\ objects = <<>>
    /\ _default_config_path = None

ResolveBaseDirectory ==
    /\ pc = "idle"
    /\ \E base_directory \in BaseDirectories, config_file_path \in ConfigFilePaths :
        LET base_dir == _resolve_base_directory(fs, python, base_directory, config_file_path)
        IN  /\ call' = [NoCall EXCEPT !.op = "_resolve_base_directory",
                                      !.base_directory = base_directory,
                                      !.config_file_path = config_file_path]
            /\ result' = [kind |-> base_dir.kind, val |-> base_dir.path]
    /\ pc' = "done"
    /\ UNCHANGED <<fs, python, registry, registered, objects, _default_config_path>>

NextBase == ResolveBaseDirectory \/ Return

SpecBase == InitBase /\ [][NextBase]_vars

\* the directory the claim names for the request, before canonicalization
NamedBase ==
    LET anchor == IF call.config_file_path.some
                  THEN PParent(call.config_file_path.v) ELSE Cwd
    IN  IF ~call.base_directory.some THEN anchor
        ELSE IF StartsWith(call.base_directory.v, "/")
             THEN PathOf(call.base_directory.v)
        ELSE [abs |-> anchor.abs,
              parts |-> anchor.parts \o PathOf(call.base_directory.v).parts]

\* C13: _resolve_base_directory returns the canonical form of the explicit
\* base when it is absolute, of the explicit base joined to the config
\* file's parent (to the working directory when no config file is known)
\* when it is relative, and of the config file's parent, else the working
\* directory, when no base is given; the result is absolute, and is the
\* kernel's canonical path when the directory exists. (A symlink loop in
\* the named directory makes Path.resolve raise on Python up to 3.12: that
\* case is left to the claim about canonicalization failures.)
C13_BaseDirectoryCases ==
    (Done("_resolve_base_directory")
     /\ ~(CanonicalizationFails(NamedBase) /\ python = "3.12"))
        => /\ result.kind = "ok"
           /\ result.val.abs
           /\ result.val = AbsPath(JoinRealPath(fs, <<>>, FromRoot(NamedBase), {}).path)
           /\ DotDot \notin {result.val.parts[i] : i \in DOMAIN result.val.parts}
           /\ (Exists(fs, NamedBase) /\ ~CanonicalizationFails(NamedBase))
                  => result.val = Canonical(NamedBase)

\* a relative base is joined to the parent of the config file, and the
\* directory it names does not exist
C13_Witness ==
    /\ Done("_resolve_base_directory")
    /\ call.base_directory = Some(Rel(<<nzz, nk>>))
    /\ call.config_file_path = Some(AbsPath(<<nc, nTa, nk>>))
    /\ result.kind = "ok"
    /\ result.val = AbsPath(<<nc, nTa, nzz, nk>>)
    /\ ~Exists(fs, result.val)

\* C14: a request to find_files_by_pattern or resolve_file_path whose
\* strategy is none of first, latest and all is rejected: it returns no
\* path chosen as one of those strategies would choose it.
C14_UnknownStrategyRejected ==
    (/\ Done("find_files_by_pattern") \/ Done("resolve_file_path")
     /\ call.match_strategy \notin Strategies
     /\ result.globbed)
        => result.kind \notin {"path", "list"}

\* C15: resolve_file_path returns a list only when the strategy is "all";
\* with "first" and with "latest" what it returns is one path; and every
\* path it returns, alone or in a list, is absolute.
C15_ListOnlyUnderAll ==
    Done("resolve_file_path") =>
        /\ result.kind = "list" => call.match_strategy = "all"
        /\ (call.match_strategy \in {"first", "latest"}
            /\ result.kind \in {"path", "list"})
               => /\ result.kind = "path"
                  /\ Cardinality(Returned) = 1
        /\ result.kind = "list" => Len(result.val) >= 1
        /\ \A m \in Returned : m.abs

\* a relative pattern under a relative base, with "all": a list of
\* absolute paths
C15_Witness ==
    /\ Done("resolve_file_path")
    /\ call.source = Rel(<<pdq>>)
    /\ call.base_directory = Some(Rel(<<nTa>>))
    /\ call.match_strategy = "all"
    /\ result.kind = "list"
    /\ result.val = <<AbsPath(<<nc, nTa, nd1>>)>>

\* C29: for an absolute source without wildcard characters,
\* resolve_file_path returns the canonical form of that very path, or
\* fails; it returns no other file, also when the source is a directory
\* inside the root.
C29_PlainAbsoluteSourceOnlyItself ==
    (/\ Done("resolve_file_path")
     /\ StartsWith(call.source, "/")
     /\ \A i \in DOMAIN call.source : call.source[i] \notin {"*", "?", "["})
        => \A m \in Returned :
               /\ Resolve(fs, python, PathOf(call.source)).kind = "ok"
               /\ m = Resolve(fs, python, PathOf(call.source)).path

----------------------------------------------------------------------------
(* A FormatRegistry that handlers are registered with and asked for a      *)
(* handler, one call at a time.                                            *)

\* the most handlers registered before the registry is cleared
MaxRegistered == 3

HandlerPool ==
    {Handler(CSVFormatHandler), Handler(CustomTXTFormatHandler),
     Handler(UpperFormatHandler), Handler(LowerFormatHandler)}
Priorities == {0, 10}

sd == <<"d">>
RegistrySources == {sd \o DotExt(scsv), sd \o DotExt(sCSV), sd \o DotExt(stxt), sd}
Overrides ==
    {None, Some(<<>>), Some(scsv), Some(sCSV), Some(stxt),
     Some(get_format_name(Handler(CustomTXTFormatHandler)))}

InitRegistry ==
    /\ fs = PlainFs
    /\ python = "3.12"
    /\ pc = "idle"
    /\ call = NoCall
    /\ result = NoResult
    /\ registry = EmptyRegistry
    /\ registered = <<>>
    /\ objects = <<>>
    /\ _default_config_path = None

Register ==
    /\ pc = "idle"
    /\ Len(registered) < MaxRegistered
    /\ \E handler \in HandlerPool, priority \in Priorities :
        /\ registry' = register(registry, handler, priority)
        /\ registered' = Append(registered, <<priority, handler>>)
    /\ UNCHANGED <<fs, python, pc, call, result, objects, _default_config_path>>

GetHandler ==
    /\ pc = "idle"
    /\ \E source \in RegistrySources, format_override \in Overrides :
        /\ call' = [NoCall EXCEPT !.op = "get_handler", !.source = source,
                                  !.format = format_override]
        /\ result' = get_handler(registry, source, format_override)
    /\ pc' = "done"
    /\ UNCHANGED <<fs, python, registry, registered, objects, _default_config_path>>

Clear ==
    /\ pc = "idle"
    /\ registered # <<>>
    /\ registry' = EmptyRegistry
    /\ registered' = <<>>
    /\ UNCHANGED <<fs, python, pc, call, result, objects, _default_config_path>>

NextRegistry == Register \/ GetHandler \/ Clear \/ Return

SpecRegistry == InitRegistry /\ [][NextRegistry]_vars

\* the registrations in descending priority, those of one priority in the
\* order of their calls: priority by priority, the highest first
RECURSIVE ByPriorityThenCall(_, _)
ByPriorityThenCall(entries, priorities) ==
    IF priorities = {} THEN <<>>
    ELSE LET top == CHOOSE p \in priorities : \A q \in priorities : q <= p
         IN  SelectSeq(entries, LAMBDA e : e[1] = top)
             \o ByPriorityThenCall(entries, priorities \ {top})
RegisteredOrder ==
    ByPriorityThenCall(registered, {registered[i][1] : i \in DOMAIN registered})

\* the extension of the source is not in the extension map
ExtensionUnmapped ==
    \/ ~Contains(call.source, ".")
    \/ DotExt(Lower(AfterLastDot(call.source))) \notin DOMAIN registry._extension_map

\* the request returned the first handler of the order that can handle
\* its source with the hint; no handler of the order can
FirstInOrder(order, format_hint) ==
    \E i \in DOMAIN order :
        /\ can_handle(order[i][2], call.source, format_hint)
        /\ \A j \in 1..(i - 1) : ~can_handle(order[j][2], call.source, format_hint)
        /\ result = Ok("handler", order[i][2])
NoneInOrder(order, format_hint) ==
    \A i \in DOMAIN order : ~can_handle(order[i][2], call.source, format_hint)

\* C16: the handler list is in descending priority, registrations of equal
\* priority in the order of their calls; and the fallback scan of
\* get_handler returns the first handler in that order that can handle
\* the source.
C16_StableDescendingPriority ==
    \A order \in {RegisteredOrder} :
        /\ registry._handlers = order
        /\ (Done("get_handler") /\ ~Truthy(call.format) /\ ExtensionUnmapped)
               => IF NoneInOrder(order, None) THEN result.kind = "ValueError"
                  ELSE FirstInOrder(order, None)

\* two handlers of priority 0 that both accept the source, registered ahead
\* of one of priority 10 that does not: the scan returns the first call's
C16_Witness ==
    /\ Done("get_handler")
    /\ registered = << <<0, Handler(UpperFormatHandler)>>,
                       <<0, Handler(LowerFormatHandler)>>,
                       <<10, Handler(CSVFormatHandler)>> >>
    /\ call.source = sd
    /\ call.format = None
    /\ result = Ok("handler", Handler(UpperFormatHandler))

\* the extensions of each handler in lower case, and those that the
\* registered handlers declare
ExtensionsOf ==
    [handler \in HandlerPool |->
        {Lower(get_supported_extensions(handler)[k]) :
            k \in DOMAIN get_supported_extensions(handler)}]
DeclaredExtensions ==
    UNION {ExtensionsOf[registered[i][2]] : i \in DOMAIN registered}

\* the handler of the first register call that declared the extension
FirstDeclaring(ext) ==
    registered[CHOOSE i \in DOMAIN registered :
                   /\ ext \in ExtensionsOf[registered[i][2]]
                   /\ \A j \in 1..(i - 1) : ext \notin ExtensionsOf[registered[j][2]]][2]

\* the name of each handler in lower case, those of the registered
\* handlers, and the handler of the last register call with the name
NameOf == [handler \in HandlerPool |-> Lower(get_format_name(handler))]
RegisteredNames == {NameOf[registered[i][2]] : i \in DOMAIN registered}
LastNamed(name) ==
    registered[CHOOSE i \in DOMAIN registered :
                   /\ NameOf[registered[i][2]] = name
                   /\ \A j \in (i + 1)..Len(registered) :
                          NameOf[registered[j][2]] # name][2]

\* C17: each declared extension maps to the handler of the first register
\* call that declared it, in whatever letter case later calls declare it;
\* get_handler without an override returns that handler for a source with
\* the extension; and with the name of a registered handler as override it
\* returns a handler of that name.
C17_ExtensionFirstWriteWins ==
    /\ DOMAIN registry._extension_map = DeclaredExtensions
    /\ \A ext \in DeclaredExtensions :
           registry._extension_map[ext] = FirstDeclaring(ext)
    /\ (/\ Done("get_handler")
        /\ ~Truthy(call.format)
        /\ Contains(call.source, ".")
        /\ DotExt(Lower(AfterLastDot(call.source))) \in DeclaredExtensions)
           => result = Ok("handler",
                          FirstDeclaring(DotExt(Lower(AfterLastDot(call.source)))))
    /\ (/\ Done("get_handler")
        /\ Truthy(call.format)
        /\ Lower(call.format.v) \in RegisteredNames)
           => /\ result.kind = "handler"
              /\ NameOf[result.val] = Lower(call.format.v)

\* C18: each format name, in lower case, maps to the handler of the last
\* register call with that name, and get_handler with the name as
\* format_override, in any letter case, returns that handler.
C18_FormatNameLastWriteWins ==
    /\ DOMAIN registry._format_name_map = RegisteredNames
    /\ \A name \in RegisteredNames :
           registry._format_name_map[name] = LastNamed(name)
    /\ (/\ Done("get_handler")
        /\ Truthy(call.format)
        /\ Lower(call.format.v) \in RegisteredNames)
           => result = Ok("handler", LastNamed(Lower(call.format.v)))

\* the handler named 'CSV', then the one named 'csv' at a lower priority:
\* the override 'CSV' returns the later one
C18_Witness ==
    /\ Done("get_handler")
    /\ registered = << <<10, Handler(UpperFormatHandler)>>,
                       <<0, Handler(LowerFormatHandler)>> >>
    /\ call.format = Some(sCSV)
    /\ call.source = sd \o DotExt(scsv)
    /\ registry._format_name_map[scsv] = Handler(LowerFormatHandler)
    /\ result = Ok("handler", Handler(LowerFormatHandler))

\* C19: with a format_override that is, in any letter case, the name of a
\* registered handler, get_handler returns the handler of that name,
\* whatever the extension of the source, the priorities and the answers of
\* can_handle; with an override that is no registered name, it returns the
\* first handler in priority order whose can_handle(source, override) is
\* true, when there is one.
C19_OverrideByNameThenHintScan ==
    (Done("get_handler") /\ Truthy(call.format)) =>
        IF Lower(call.format.v) \in RegisteredNames
        THEN /\ result.kind = "handler"
             /\ result.val = LastNamed(Lower(call.format.v))
        ELSE \A order \in {RegisteredOrder} :
                 NoneInOrder(order, call.format) \/ FirstInOrder(order, call.format)

\* the override names the handler of the lower priority, which does not
\* accept the source with that hint, while the handler of the higher
\* priority accepts the source and owns its extension
C19_Witness ==
    /\ Done("get_handler")
    /\ registered = << <<10, Handler(CSVFormatHandler)>>,
                       <<0, Handler(CustomTXTFormatHandler)>> >>
    /\ call.source = sd \o DotExt(scsv)
    /\ call.format = Some(get_format_name(Handler(CustomTXTFormatHandler)))
    /\ call.format.v \notin {scustom_txt, stxt}
    /\ ~can_handle(Handler(CustomTXTFormatHandler), call.source, call.format)
    /\ can_handle(Handler(CSVFormatHandler), call.source, call.format)
    /\ registry._extension_map[DotExt(scsv)] = Handler(CSVFormatHandler)
    /\ result = Ok("handler", Handler(CustomTXTFormatHandler))

\* the override is, in lower case, a key of the format-name map
OverrideNamesHandler ==
    Truthy(call.format) /\ Lower(call.format.v) \in DOMAIN registry._format_name_map

OverrideMatches ==
    /\ Truthy(call.format)
    /\ \/ Lower(call.format.v) \in RegisteredNames
       \/ ~NoneInOrder(registered, call.format)

\* C22: get_handler raises ValueError exactly when no override matches,
\* the extension of the source is not one a registered handler declared and
\* no registered handler can handle the source without a hint; otherwise it
\* returns a registered handler; on an empty registry it always raises.
C22_NoHandlerExactlyWhenNothingMatches ==
    Done("get_handler") =>
        /\ result.kind = "ValueError"
               <=> /\ ~OverrideMatches
                   /\ \/ ~Contains(call.source, ".")
                      \/ DotExt(Lower(AfterLastDot(call.source))) \notin DeclaredExtensions
                   /\ NoneInOrder(registered, None)
        /\ result.kind # "ValueError"
               => /\ result.kind = "handler"
                  /\ \E i \in DOMAIN registered : registered[i][2] = result.val
        /\ registered = <<>> => result.kind = "ValueError"

\* a registry that is not empty, an override that is no name and no
\* accepted hint, a source of an undeclared extension: the request fails
C22_Witness ==
    /\ Done("get_handler")
    /\ registered = << <<10, Handler(CSVFormatHandler)>> >>
    /\ call.source = sd \o DotExt(stxt)
    /\ call.format = Some(stxt)
    /\ result.kind = "ValueError"

\* the handlers of the priority-ordered list
Listed == {registry._handlers[i][2] : i \in DOMAIN registry._handlers}

\* C30: in every state of a registry that handlers are registered with,
\* asked for and cleared from, the handlers of the extension map and of
\* the format-name map are in the handler list and the keys of both maps
\* are lower case; a get_handler step changes none of the three
\* structures, and a clear step leaves the three empty.
C30_RegistryStructuresConsistent ==
    /\ [](/\ \A k \in DOMAIN registry._extension_map :
                 k = Lower(k) /\ registry._extension_map[k] \in Listed
          /\ \A k \in DOMAIN registry._format_name_map :
                 k = Lower(k) /\ registry._format_name_map[k] \in Listed)
    /\ [][/\ (pc = "idle" /\ pc' = "done" /\ call'.op = "get_handler")
                 => registry' = registry
          /\ (registered # <<>> /\ registered' = <<>>)
                 => registry' = EmptyRegistry]_vars

\* a handler that declares '.CSV' and names its format 'CSV' is registered
\* after one that owns '.csv', and a handler was asked for: the keys are
\* lower case and the handlers mapped are listed
C30_Witness ==
    /\ Done("get_handler")
    /\ registered = << <<10, Handler(CSVFormatHandler)>>,
                       <<0, Handler(UpperFormatHandler)>> >>
    /\ DOMAIN registry._extension_map = {DotExt(scsv)}
    /\ DOMAIN registry._format_name_map =
           {scsv, get_format_name(Handler(CSVFormatHandler))}
    /\ Len(registry._handlers) = 2

----------------------------------------------------------------------------
(* The default registry of the module: _default_registry is None until     *)
(* the first request builds it with the built-in handlers, and again after *)
(* a reset. The requests are those that name no config_path.               *)

DefaultSources ==
    {sd \o DotExt(scsv), sd \o DotExt(sCSV), sd \o DotExt(stxt),
     sd \o DotExt(spqt), sd \o DotExt(sparquet), sd,
     sd \o DotExt(scsv) \o DotExt(stxt), sd \o DotExt(<<"b">>),
     sd \o <<".">>, DotExt(scsv)}
DefaultOverrides ==
    {None, Some(<<>>), Some(scsv), Some(scustom_txt), Some(sparquet),
     Some(sCSV), Some(stxt), Some(get_format_name(Handler(CSVFormatHandler))),
     Some(get_format_name(Handler(CustomTXTFormatHandler))),
     Some(<<"P", "a", "r", "q", "u", "e", "t">>), Some(<<"z", "z">>)}

InitDefault ==
    /\ fs = PlainFs
    /\ python = "3.12"
    /\ pc = "idle"
    /\ call = NoCall
    /\ result = NoResult
    /\ registry = None
    /\ registered = <<>>
    /\ objects = <<>>
    /\ _default_config_path = None

\* get_default_registry(): the registry, built first when there is none
get_default_registry(default_registry) ==
    IF default_registry = None THEN DefaultRegistry ELSE default_registry

\* the module's get_handler(source, format_override) with no registry given
GetHandlerOfDefaultRegistry ==
    /\ pc = "idle"
    /\ \E source \in DefaultSources, format_override \in DefaultOverrides :
        /\ call' = [NoCall EXCEPT !.op = "get_handler", !.source = source,
                                  !.format = format_override]
        /\ result' = get_handler(get_default_registry(registry), source,
                                 format_override)
    /\ registry' = get_default_registry(registry)
    /\ registered' = DefaultRegistered
    /\ pc' = "done"
    /\ UNCHANGED <<fs, python, objects, _default_config_path>>

ResetDefaultRegistry ==
    /\ pc = "idle"
    /\ registry # None
    /\ registry' = None
    /\ registered' = <<>>
    /\ UNCHANGED <<fs, python, pc, call, result, objects, _default_config_path>>

NextDefault == GetHandlerOfDefaultRegistry \/ ResetDefaultRegistry \/ Return

SpecDefault == InitDefault /\ [][NextDefault]_vars

\* the built-in handler of a documented format name
HandlerOfFormat(format) ==
    CASE format = scsv -> Handler(CSVFormatHandler)
      [] format = scustom_txt -> Handler(CustomTXTFormatHandler)
      [] format = sparquet -> Handler(ParquetFormatHandler)

\* C20: in the default registry, for each of the format names csv,
\* custom_txt and parquet and every source, get_handler with the name as
\* format_override returns the handler of that format.
C20_DefaultOverrideOutranksExtension ==
    (/\ Done("get_handler")
     /\ registry = DefaultRegistry
     /\ call.format \in {Some(scsv), Some(scustom_txt), Some(sparquet)})
        => result = Ok("handler", HandlerOfFormat(call.format.v))

----------------------------------------------------------------------------
(* The default registry of the module when requests name a config_path:    *)
(* registry is _default_registry, None or Some(n), a reference to the n-th *)
(* of the objects in the order of their construction.                      *)

\* the most FormatRegistry objects constructed
MaxObjects == 3

ConfigPaths == {None, Some(<<"a">>), Some(<<"b">>), Some(<<>>)}

InitConfigured ==
    /\ fs = PlainFs
    /\ python = "3.12"
    /\ pc = "idle"
    /\ call = NoCall
    /\ result = NoResult
    /\ registry = None
    /\ registered = <<>>
    /\ objects = <<>>
    /\ _default_config_path = None

\* get_default_registry(config_path) on the globals and the objects: the
\* globals and the objects after the call; the global _default_registry is
\* what the call returns
get_default_registry_of(default_registry, default_config_path, objs, config_path) ==
    IF default_registry = None
       \/ (default_registry # None /\ config_path # default_config_path)
    THEN [_default_registry |-> Some(Len(objs) + 1),
          _default_config_path |-> config_path,
          objects |-> Append(objs, DefaultRegistry)]
    ELSE [_default_registry |-> default_registry,
          _default_config_path |-> default_config_path,
          objects |-> objs]

\* whether the call constructs a FormatRegistry
Constructs(config_path) ==
    registry = None \/ config_path # _default_config_path

GetDefaultRegistry ==
    /\ pc = "idle"
    /\ \E config_path \in ConfigPaths :
        /\ Constructs(config_path) => Len(objects) < MaxObjects
        /\ \E after \in {get_default_registry_of(registry, _default_config_path,
                                                 objects, config_path)} :
            /\ registry' = after._default_registry
            /\ _default_config_path' = after._default_config_path
            /\ objects' = after.objects
            /\ result' = Ok("registry", after._default_registry)
        /\ call' = [NoCall EXCEPT !.op = "get_default_registry",
                                  !.config_file_path = config_path]
    /\ pc' = "done"
    /\ UNCHANGED <<fs, python, registered>>

\* the module's get_handler(source, format_override, None, config_path)
GetHandlerWithConfigPath ==
    /\ pc = "idle"
    /\ \E config_path \in ConfigPaths, source \in {sd \o DotExt(scsv), sd \o DotExt(stxt), sd},
          format_override \in {None, Some(sparquet), Some(scsv)} :
        /\ Constructs(config_path) => Len(objects) < MaxObjects
        /\ \E after \in {get_default_registry_of(registry, _default_config_path,
                                                 objects, config_path)} :
            /\ registry' = after._default_registry
            /\ _default_config_path' = after._default_config_path
            /\ objects' = after.objects
            /\ result' = get_handler(after.objects[after._default_registry.v],
                                     source, format_override)
        /\ call' = [NoCall EXCEPT !.op = "get_handler", !.source = source,
                                  !.format = format_override,
                                  !.config_file_path = config_path]
    /\ pc' = "done"
    /\ UNCHANGED <<fs, python, registered>>

\* reset_default_registry()
ResetDefaultRegistryAndPath ==
    /\ pc = "idle"
    /\ registry # None
    /\ registry' = None
    /\ _default_config_path' = None
    /\ UNCHANGED <<fs, python, pc, call, result, registered, objects>>

NextConfigured ==
    GetDefaultRegistry \/ GetHandlerWithConfigPath \/ ResetDefaultRegistryAndPath
    \/ Return

SpecConfigured == InitConfigured /\ [][NextConfigured]_vars

\* C23: a request made while there is no default registry builds one with
\* the built-in registrations; from then on every step that is not a reset
\* (after which there is none) leaves _default_registry the same object
\* with the same registrations.
C23_DefaultRegistryStableUntilReset ==
    [][/\ (registry = None /\ pc' = "done")
              => (registry' # None /\ objects'[registry'.v] = DefaultRegistry)
       /\ (registry # None /\ registry' # None)
              => (registry' = registry /\ objects'[registry'.v] = objects[registry.v])]_vars

----------------------------------------------------------------------------
(* The handlers of the handlers package asked what they can handle and     *)
(* what their format is called, and registered with a FormatRegistry.      *)

PackageHandlers ==
    {Handler(CSVFormatHandler), Handler(CustomTXTFormatHandler),
     Handler(ParquetFormatHandler), Handler(SAS7BDATFormatHandler)}
HandlerSources ==
    {sd \o DotExt(ssas7bdat), sd \o DotExt(scsv), sd \o DotExt(sCSV),
     sd \o DotExt(stxt), sd \o DotExt(spqt), sd \o DotExt(sparquet), sd}
Hints ==
    {None, Some(<<>>), Some(scsv), Some(sCSV), Some(scustom_txt),
     Some(sparquet), Some(ssas7bdat), Some(<<"S", "A", "S", "7", "B", "D", "A", "T">>)}

InitHandlers ==
    /\ fs = PlainFs
    /\ python = "3.12"
    /\ pc = "idle"
    /\ call = NoCall
    /\ result = NoResult
    /\ registry = EmptyRegistry
    /\ registered = <<>>
    /\ objects = <<>>
    /\ _default_config_path = None

CanHandle ==
    /\ pc = "idle"
    /\ \E handler \in PackageHandlers, source \in HandlerSources, format_hint \in Hints :
        /\ call' = [op |-> "can_handle", handler |-> handler, source |-> source,
                    format |-> format_hint]
        /\ result' = Ok("bool", can_handle(handler, source, format_hint))
    /\ pc' = "done"
    /\ UNCHANGED <<fs, python, registry, registered, objects, _default_config_path>>

GetFormatName ==
    /\ pc = "idle"
    /\ \E handler \in PackageHandlers :
        /\ call' = [op |-> "get_format_name", handler |-> handler]
        /\ result' = Ok("str", get_format_name(handler))
    /\ pc' = "done"
    /\ UNCHANGED <<fs, python, registry, registered, objects, _default_config_path>>

RegisterPackageHandler ==
    /\ pc = "idle"
    /\ Len(registered) < MaxRegistered
    /\ \E handler \in PackageHandlers :
        /\ registry' = register(registry, handler, 0)
        /\ registered' = Append(registered, <<0, handler>>)
    /\ UNCHANGED <<fs, python, pc, call, result, objects, _default_config_path>>

NextHandlers == CanHandle \/ GetFormatName \/ RegisterPackageHandler \/ Return

SpecHandlers == InitHandlers /\ [][NextHandlers]_vars

\* the format name that the documentation and the tests give a handler
DocumentedName(handler) ==
    CASE handler.cls = CSVFormatHandler -> scsv
      [] handler.cls = CustomTXTFormatHandler -> scustom_txt
      [] handler.cls = ParquetFormatHandler -> sparquet
      [] handler.cls = SAS7BDATFormatHandler -> ssas7bdat

\* C24: with a hint that is, in any letter case, the format name of the
\* handler, can_handle is true for any source; with a hint that names
\* another format it is false, whatever the extension of the source; with
\* no hint (None or '') it is true exactly when the source ends, in any
\* letter case, with an extension the handler supports.
C24_CanHandleByHintOrExtension ==
    Done("can_handle") =>
        result.val =
            IF Truthy(call.format)
            THEN Lower(call.format.v) = DocumentedName(call.handler)
            ELSE \E k \in DOMAIN get_supported_extensions(call.handler) :
                     EndsWith(Lower(call.source),
                              Lower(get_supported_extensions(call.handler)[k]))

\* C25: get_format_name gives csv, custom_txt, parquet and sas7bdat for the
\* four handler classes, and these are the keys of the format-name map
\* after the handlers are registered.
C25_FormatNameIsSnakeCase ==
    /\ Done("get_format_name") => result.val = DocumentedName(call.handler)
    /\ DOMAIN registry._format_name_map =
           {DocumentedName(registered[i][2]) : i \in DOMAIN registered}

----------------------------------------------------------------------------
(* data_loader/factory.py, load_data for a source named in the             *)
(* configuration. A dict is a function on its keys; the values of the      *)
(* keys are strings, and validate_before_load, a bool, is given apart.     *)

\* {**a, **b}, and d without some keys
Merge(a, b) ==
    [k \in DOMAIN a \cup DOMAIN b |-> IF k \in DOMAIN b THEN b[k] ELSE a[k]]
Without(d, keys) == [k \in DOMAIN d \ keys |-> d[k]]

\* d.get(key)
Get(d, key) == IF key \in DOMAIN d THEN Some(d[key]) ELSE None

\* source_config.get('pattern') or source_config.get('path')
PatternOrPath(source_config) ==
    IF "pattern" \in DOMAIN source_config /\ source_config["pattern"] # ""
    THEN Get(source_config, "pattern")
    ELSE Get(source_config, "path")

\* load_data(source_name, **kwargs), from the entry of the source on: the
\* arguments of loader.get_data, or the error raised before it
load_data(source_config, kwargs, validate_before_load, defaults) ==
    IF "path" \notin DOMAIN source_config /\ "pattern" \notin DOMAIN source_config
    THEN Raise("ValueError")
    ELSE LET match_strategy ==
                 IF "match_strategy" \in DOMAIN source_config
                 THEN source_config["match_strategy"] ELSE "first"
             source_params ==
                 Without(source_config,
                         {"path", "pattern", "format", "match_strategy", "directory"})
             popped == Without(kwargs, {"format", "match_strategy"})
             with_strategy ==
                 IF match_strategy # ""
                 THEN DictSet(popped, "match_strategy", match_strategy)
                 ELSE popped
         IN  Ok("get_data",
                [source |-> PatternOrPath(source_config),
                 validate_before_load |->
                     IF validate_before_load.some THEN validate_before_load.v
                     ELSE IF defaults.some THEN defaults.v ELSE TRUE,
                 format |-> Get(source_config, "format"),
                 kwargs |-> Merge(source_params, with_strategy)])

\* the dicts with some of the keys, each key with one of its values
DictsOver(values) ==
    UNION {{d \in [keys -> UNION {values[k] : k \in keys}] :
               \A k \in keys : d[k] \in values[k]} : keys \in SUBSET DOMAIN values}

SourceConfigs ==
    {Merge(located, d) :
        located \in {<<>>, [path |-> "d.txt"], [pattern |-> "d*"]},
        d \in DictsOver([format |-> {"csv"}, match_strategy |-> {"all", ""},
                         encoding |-> {"utf8"}])}
CallKwargs ==
    DictsOver([format |-> {"custom_txt"}, match_strategy |-> {"latest"},
               encoding |-> {"latin1"}])

InitLoadData ==
    /\ fs = PlainFs
    /\ python = "3.12"
    /\ pc = "idle"
    /\ call = NoCall
    /\ result = NoResult
    /\ registry = EmptyRegistry
    /\ registered = <<>>
    /\ objects = <<>>
    /\ _default_config_path = None

LoadData ==
    /\ pc = "idle"
    /\ \E source_config \in SourceConfigs, kwargs \in CallKwargs,
          validate_before_load \in {None, Some(FALSE)},
          defaults \in {None, Some(FALSE), Some(TRUE)} :
        /\ call' = [op |-> "load_data", source_config |-> source_config,
                    kwargs |-> kwargs,
                    validate_before_load |-> validate_before_load,
                    defaults |-> defaults]
        /\ result' = load_data(source_config, kwargs, validate_before_load, defaults)
    /\ pc' = "done"
    /\ UNCHANGED <<fs, python, registry, registered, objects, _default_config_path>>

NextLoadData == LoadData \/ Return

SpecLoadData == InitLoadData /\ [][NextLoadData]_vars

\* C26: when load_data of a named source invokes the loader, every
\* parameter the caller passed that the entry of the source also sets
\* (format and match_strategy among them) has the value of the caller.
C26_CallSiteOverridesConfiguration ==
    (Done("load_data") /\ result.kind = "get_data") =>
        /\ \A k \in DOMAIN call.kwargs \cap DOMAIN call.source_config :
               IF k = "format" THEN result.val.format = Some(call.kwargs[k])
               ELSE /\ k \in DOMAIN result.val.kwargs
                    /\ result.val.kwargs[k] = call.kwargs[k]
        /\ call.validate_before_load.some
               => result.val.validate_before_load = call.validate_before_load.v

----------------------------------------------------------------------------
(* data_loader/factory.py, LoaderRegistry: registry is a LoaderRegistry,   *)
(* and registered are the register calls made on it, whatever they did, in *)
(* the order of the calls.                                                  *)

LoaderTypes == {"local", "github"}
\* two classes that extend BaseLoader and one that does not
LoaderClasses == {"LocalFileLoader", "GitHubLoader", "dict"}
IsSubclassOfBaseLoader(loader_class) == loader_class # "dict"

\* LoaderRegistry.__init__
EmptyLoaderRegistry == [_loaders |-> <<>>]

\* register when a registered type name is given its new class
register_loader_overwriting(r, loader_type, loader_class) ==
    IF ~IsSubclassOfBaseLoader(loader_class)
    THEN [registry |-> r, result |-> Raise("TypeError")]
    ELSE [registry |-> [r EXCEPT !._loaders = DictSet(@, loader_type, loader_class)],
          result |-> Ok("None", <<>>)]

\* LoaderRegistry.register(loader_type, loader_class): the registry after
\* the call and what the call returned or raised
register_loader(r, loader_type, loader_class) ==
    IF loader_type \in DOMAIN r._loaders
    THEN [registry |-> r, result |-> Raise("ValueError")]
    ELSE IF ~IsSubclassOfBaseLoader(loader_class)
    THEN [registry |-> r, result |-> Raise("TypeError")]
    ELSE [registry |-> [r EXCEPT !._loaders = DictSet(@, loader_type, loader_class)],
          result |-> Ok("None", <<>>)]

\* LoaderRegistry.get_loader_class(loader_type)
get_loader_class(r, loader_type) ==
    IF loader_type \notin DOMAIN r._loaders THEN Raise("ValueError")
    ELSE Ok("class", r._loaders[loader_type])

\* LoaderRegistry.is_registered(loader_type)
is_registered(r, loader_type) == Ok("bool", loader_type \in DOMAIN r._loaders)

InitLoaders ==
    /\ fs = PlainFs
    /\ python = "3.12"
    /\ pc = "idle"
    /\ call = NoCall
    /\ result = NoResult
    /\ registry = EmptyLoaderRegistry
    /\ registered = <<>>
    /\ objects = <<>>
    /\ _default_config_path = None

RegisterLoader ==
    /\ pc = "idle"
    /\ Len(registered) < MaxRegistered
    /\ \E loader_type \in LoaderTypes, loader_class \in LoaderClasses :
        /\ call' = [op |-> "register", loader_type |-> loader_type,
                    loader_class |-> loader_class]
        /\ \E after \in {register_loader(registry, loader_type, loader_class)} :
            /\ registry' = after.registry
            /\ result' = after.result
        /\ registered' = Append(registered, <<loader_type, loader_class>>)
    /\ pc' = "done"
    /\ UNCHANGED <<fs, python, objects, _default_config_path>>

GetLoaderClass ==
    /\ pc = "idle"
    /\ \E loader_type \in LoaderTypes :
        /\ call' = [op |-> "get_loader_class", loader_type |-> loader_type]
        /\ result' = get_loader_class(registry, loader_type)
    /\ pc' = "done"
    /\ UNCHANGED <<fs, python, registry, registered, objects, _default_config_path>>

IsRegistered ==
    /\ pc = "idle"
    /\ \E loader_type \in LoaderTypes :
        /\ call' = [op |-> "is_registered", loader_type |-> loader_type]
        /\ result' = is_registered(registry, loader_type)
    /\ pc' = "done"
    /\ UNCHANGED <<fs, python, registry, registered, objects, _default_config_path>>

NextLoaders == RegisterLoader \/ GetLoaderClass \/ IsRegistered \/ Return

SpecLoaders == InitLoaders /\ [][NextLoaders]_vars

\* the register calls of a type name with a class that extends BaseLoader;
\* the first of them is the one that succeeds
ValidCalls(loader_type) ==
    {i \in DOMAIN registered :
        /\ registered[i][1] = loader_type
        /\ IsSubclassOfBaseLoader(registered[i][2])}
FirstRegistered(loader_type) ==
    registered[CHOOSE i \in ValidCalls(loader_type) :
                   \A j \in ValidCalls(loader_type) : i <= j][2]

\* C27: each type name maps to the class of its first successful register
\* call and to nothing before one; a register call of a type name that is
\* registered raises ValueError; get_loader_class of a type name that is
\* not registered raises ValueError, and is_registered is true exactly for
\* the registered ones.
C27_LoaderTypeFirstRegistrationStays ==
    /\ DOMAIN registry._loaders = {t \in LoaderTypes : ValidCalls(t) # {}}
    /\ \A t \in DOMAIN registry._loaders : registry._loaders[t] = FirstRegistered(t)
    /\ Done("register")
           => (result.kind = "ValueError"
                   <=> \E i \in ValidCalls(call.loader_type) : i < Len(registered))
    /\ Done("get_loader_class")
           => result = IF ValidCalls(call.loader_type) = {} THEN Raise("ValueError")
                       ELSE Ok("class", FirstRegistered(call.loader_type))
    /\ Done("is_registered")
           => result.val = (ValidCalls(call.loader_type) # {})

\* 'local' registered with one class, then again with another: the second
\* call raised and the first class is still the one mapped
C27_Witness ==
    /\ Done("register")
    /\ registered = << <<"local", "LocalFileLoader">>, <<"local", "GitHubLoader">> >>
    /\ result.kind = "ValueError"
    /\ registry._loaders = [local |-> "LocalFileLoader"]

----------------------------------------------------------------------------
(* Two callers of the module's get_handler(source) whose statements        *)
(* interleave, with no lock: pc, call and result are per caller, pc is the *)
(* line of registry.py the caller executes next, and call holds its local  *)
(* variables. registry is the global _default_registry, a reference into   *)
(* objects.                                                                *)

Callers == {"a", "b"}

\* the lines of get_default_registry and of _register_default_handlers
InsideGetDefaultRegistry ==
    {"L173", "L176", "L177", "L178", "L179", "L205", "L206", "L207", "L181"}

\* lines 205 to 207 when the CSV handler is registered at priority 5
DefaultHandlerAt_csv_last(line) ==
    CASE line = "L205" -> <<5, Handler(CSVFormatHandler)>>
      [] line = "L206" -> <<8, Handler(ParquetFormatHandler)>>
      [] line = "L207" -> <<10, Handler(CustomTXTFormatHandler)>>

\* the priority and the handler of the register call of a line
DefaultHandlerAt(line) ==
    CASE line = "L205" -> <<10, Handler(CSVFormatHandler)>>
      [] line = "L206" -> <<8, Handler(ParquetFormatHandler)>>
      [] line = "L207" -> <<5, Handler(CustomTXTFormatHandler)>>

\* the line after a line of the straight part
LineAfter(line) ==
    CASE line = "L177" -> "L178"
      [] line = "L178" -> "L179"
      [] line = "L179" -> "L205"
      [] line = "L205" -> "L206"
      [] line = "L206" -> "L207"
      [] line = "L207" -> "L181"
      [] line = "L181" -> "L238"
      [] line = "L238" -> "done"

NoLocals ==
    [op |-> "none", source |-> <<>>, config_path |-> None, registry |-> None,
     returned |-> None, serialized |-> TRUE]

InitInterleaved ==
    /\ fs = PlainFs
    /\ python = "3.12"
    /\ pc = [c \in Callers |-> "idle"]
    /\ call = [c \in Callers |-> NoLocals]
    /\ result = [c \in Callers |-> NoResult]
    /\ registry = None
    /\ registered = <<>>
    /\ objects = <<>>
    /\ _default_config_path = None

\* a caller enters get_handler(source): line 236 calls
\* get_default_registry(None). Its calls are serialized as long as no other
\* caller is inside get_default_registry while it is.
Enter(c) ==
    /\ pc[c] = "idle"
    /\ \E source \in {sd \o DotExt(scsv), sd} :
        call' = [o \in Callers |->
                    IF \E other \in Callers \ {c} : pc[other] \in InsideGetDefaultRegistry
                    THEN [(IF o = c THEN [NoLocals EXCEPT !.op = "get_handler",
                                                          !.source = source]
                           ELSE call[o]) EXCEPT !.serialized = FALSE]
                    ELSE IF o = c
                         THEN [NoLocals EXCEPT !.op = "get_handler", !.source = source]
                         ELSE call[o]]
    /\ pc' = [pc EXCEPT ![c] = "L173"]
    /\ UNCHANGED <<fs, python, result, registry, registered, objects,
                   _default_config_path>>

\* lines 173 to 174: reset when config_path changed
ResetIfConfigPathChanged(c) ==
    /\ pc[c] = "L173"
    /\ IF registry # None /\ call[c].config_path # _default_config_path
       THEN registry' = None /\ _default_config_path' = None
       ELSE UNCHANGED <<registry, _default_config_path>>
    /\ pc' = [pc EXCEPT ![c] = "L176"]
    /\ UNCHANGED <<fs, python, call, result, registered, objects>>

\* line 176: if _default_registry is None
TestDefaultRegistry(c) ==
    /\ pc[c] = "L176"
    /\ pc' = [pc EXCEPT ![c] = IF registry = None THEN "L177" ELSE "L181"]
    /\ UNCHANGED <<fs, python, call, result, registry, registered, objects,
                   _default_config_path>>

\* line 177: _default_registry = FormatRegistry()
Publish(c) ==
    /\ pc[c] = "L177"
    /\ objects' = Append(objects, EmptyRegistry)
    /\ registry' = Some(Len(objects) + 1)
    /\ pc' = [pc EXCEPT ![c] = LineAfter("L177")]
    /\ UNCHANGED <<fs, python, call, result, registered, _default_config_path>>

\* line 178: _default_config_path = config_path
AssignConfigPath(c) ==
    /\ pc[c] = "L178"
    /\ _default_config_path' = call[c].config_path
    /\ pc' = [pc EXCEPT ![c] = LineAfter("L178")]
    /\ UNCHANGED <<fs, python, call, result, registry, registered, objects>>

\* line 179: _register_default_handlers(_default_registry, config_path),
\* the global read when the call is made
CallRegisterDefaultHandlers(c) ==
    /\ pc[c] = "L179"
    /\ call' = [call EXCEPT ![c].registry = registry]
    /\ pc' = [pc EXCEPT ![c] = LineAfter("L179")]
    /\ UNCHANGED <<fs, python, result, registry, registered, objects,
                   _default_config_path>>

\* lines 205 to 207: registry.register(handler, priority)
RegisterDefaultHandler(c) ==
    /\ pc[c] \in {"L205", "L206", "L207"}
    /\ objects' = [objects EXCEPT ![call[c].registry.v] =
                       register(@, DefaultHandlerAt(pc[c])[2], DefaultHandlerAt(pc[c])[1])]
    /\ pc' = [pc EXCEPT ![c] = LineAfter(pc[c])]
    /\ UNCHANGED <<fs, python, call, result, registry, registered,
                   _default_config_path>>

\* line 181: return _default_registry
ReturnDefaultRegistry(c) ==
    /\ pc[c] = "L181"
    /\ call' = [call EXCEPT ![c].returned = registry]
    /\ pc' = [pc EXCEPT ![c] = LineAfter("L181")]
    /\ UNCHANGED <<fs, python, result, registry, registered, objects,
                   _default_config_path>>

\* line 238: return registry.get_handler(source, format_override=None)
GetHandlerOfReturned(c) ==
    /\ pc[c] = "L238"
    /\ result' = [result EXCEPT ![c] =
                      get_handler(objects[call[c].returned.v], call[c].source, None)]
    /\ pc' = [pc EXCEPT ![c] = LineAfter("L238")]
    /\ UNCHANGED <<fs, python, call, registry, registered, objects,
                   _default_config_path>>

NextInterleaved ==
    \E c \in Callers :
        \/ Enter(c)
        \/ ResetIfConfigPathChanged(c)
        \/ TestDefaultRegistry(c)
        \/ Publish(c)
        \/ AssignConfigPath(c)
        \/ CallRegisterDefaultHandlers(c)
        \/ RegisterDefaultHandler(c)
        \/ ReturnDefaultRegistry(c)
        \/ GetHandlerOfReturned(c)

SpecInterleaved == InitInterleaved /\ [][NextInterleaved]_vars

\* C28: a caller whose get_default_registry call was serialized with the
\* other caller's is handed a registry that holds the CSV, Parquet and
\* custom TXT handlers at priorities 10, 8 and 5, and its get_handler
\* fails for no source with an extension of theirs; a caller whose call
\* was not can be handed less (C28_Witness).
C28_SerializedInitializationIsComplete ==
    \A c \in Callers :
        (pc[c] \in {"L238", "done"} /\ call[c].serialized)
            => /\ objects[call[c].returned.v]._handlers = DefaultRegistered
               /\ objects[call[c].returned.v] = DefaultRegistry
               /\ (pc[c] = "done" /\ call[c].source = sd \o DotExt(scsv))
                      => result[c] = Ok("handler", Handler(CSVFormatHandler))

\* a caller was handed the registry that the other caller had published
\* and not yet filled: its get_handler('d.csv') failed with no handler
C28_Witness ==
    \E c \in Callers, other \in Callers :
        /\ c # other
        /\ pc[c] = "done"
        /\ ~call[c].serialized
        /\ call[c].source = sd \o DotExt(scsv)
        /\ result[c].kind = "ValueError"
        /\ call[c].returned = call[other].registry
        /\ pc[other] \in {"L205", "L206", "L207", "L181", "L238", "done"}

====
